---- MODULE Spec2Model ----
(***************************************************************************)
(* Account pool, rotation engine and in-process cache of insta-api.        *)
(*                                                                         *)
(*   app/core/accounts.py               AccountInfo, AccountManager        *)
(*   app/services/instaloader_service.py InstaloaderService                *)
(*   app/routes/accounts.py             account management routes          *)
(*   app/routes/extract.py              extract_highlight                  *)
(*   app/core/cache.py                  InMemoryCache                      *)
(*                                                                         *)
(* AccountInfo objects live in a heap indexed by object identity: a call   *)
(* in flight keeps its AccountInfo even after the account was removed from *)
(* the pool, and two loaded accounts may carry the same username.          *)
(***************************************************************************)
EXTENDS Integers, Sequences, FiniteSets, TLC

VARIABLES
    heap,            \* object id -> AccountInfo fields (FreeObj when unallocated)
    accounts,        \* AccountManager._accounts, a sequence of object ids
    current_index,   \* AccountManager._current_index
    now,             \* datetime.now(), in minutes
    loaders,         \* keys of InstaloaderService._loaders
    default_loader,  \* InstaloaderService._loader is not None
    logged_in_user,  \* InstaloaderService._logged_in_user ("" for None)
    env_sessions,    \* usernames with a usable blob in INSTAGRAM_SESSIONS
    session_files,   \* usernames with a loadable session file on disk
    login_ok,        \* usernames for which loader.login() succeeds
    calls,           \* the calls of _run_with_rotation / _fetch_highlight
    last,            \* the operation performed by the last step and its result
    cache,           \* InMemoryCache._cache, entries in dict (insertion) order
    max_size,        \* InMemoryCache._max_size
    time,            \* time.time(), in seconds
    probe,           \* the last two requests whose cache key was computed
    requests_limit,  \* RateLimiter.requests_limit
    window_seconds,  \* RateLimiter.window_seconds
    clients,         \* RateLimiter._clients: client key -> state.requests
    admitted,        \* history: client key -> every timestamp ever admitted
    clock,           \* time.time() as the limiter reads it, in half seconds
    verdict,         \* what the last is_allowed call returned
    redis_client,    \* RedisCache._redis is not None
    redis_state,     \* the Redis deployment: library, server
    redis_store,     \* the keys insta:* the Redis server holds
    max_workers,     \* settings.max_concurrent_downloads, size of _executor
    executing,       \* the calls whose unit of work a thread is executing
    corrupt,         \* session data that is present but fails to load
    pcs,             \* thread -> where the thread is in its code
    locals,          \* thread -> the local variables of its frame
    held,            \* thread -> the locks the thread holds
    constructions    \* username -> clients built and stored in _loaders

vars == <<heap, accounts, current_index, now, loaders, default_loader,
          logged_in_user, env_sessions, session_files, login_ok, calls, last,
          cache, max_size, time, probe, requests_limit, window_seconds,
          clients, admitted, clock, verdict, redis_client, redis_state,
          redis_store, max_workers, executing, corrupt, pcs, locals, held,
          constructions>>

poolVars   == <<heap, accounts, current_index, now>>
engineVars == <<loaders, default_loader, logged_in_user, env_sessions,
                session_files, login_ok, calls>>
cacheVars  == <<cache, max_size, time>>
limiterVars == <<requests_limit, window_seconds, clients, admitted, clock,
                 verdict>>
redisVars  == <<redis_client, redis_state, redis_store>>
execVars   == <<max_workers, executing>>
threadVars == <<corrupt, pcs, locals, held, constructions>>
sideVars   == <<probe, limiterVars, redisVars, threadVars>>

----------------------------------------------------------------------------
(* Bounds of the model *)

MaxAccounts == 3      \* longest account list add_account / load_from_env build
MaxCalls    == 2      \* calls of the engine in one behaviour
MaxNow      == 61     \* last minute datetime.now() reaches
MaxClock    == 3      \* last second time.time() reaches
CacheSize   == 10     \* the max_size the cache is constructed with
MaxLimit    == 2      \* largest requests_limit of the limiter
MaxWindow   == 2      \* largest window_seconds of the limiter
MaxTicks    == 5      \* half seconds the limiter's clock runs for
MaxAdmitted == 4      \* requests the limiter admits in one behaviour
MaxWorkers  == 2      \* largest max_concurrent_downloads of the executor
MaxSeconds == 300     \* how far the clock of the cache is moved, in seconds
MaxFetches == 2       \* units of work the engine serves for the requests

(* Program constants *)

HourlyLimit      == 150   \* is_available: requests_this_hour >= 150
RateLimitMinutes == 60    \* mark_rate_limited(duration_minutes=60)
max_concurrent_downloads == 3   \* Settings.max_concurrent_downloads
CacheTTLPosts == 3600     \* CacheTTL.POSTS, also CacheTTL.PROFILE
CacheTTLStories == 300    \* CacheTTL.STORIES

Usernames == {"a1", "a2", "a3"}
NoUser    == ""
NoAccount == 0        \* None where an AccountInfo is expected
NoTime    == -1       \* None where a datetime is expected

ObjIds == 1..(MaxAccounts + MaxCalls)

Range(s) == {s[i] : i \in 1..Len(s)}

----------------------------------------------------------------------------
(* AccountInfo *)

\* A freshly constructed AccountInfo: the dataclass defaults.
AccountInfo(username, enabled) ==
    [username           |-> username,
     enabled            |-> enabled,
     requests_this_hour |-> 0,
     last_request_time  |-> NoTime,
     rate_limited_until |-> NoTime,
     last_error         |-> ""]

FreeObj == [username           |-> NoUser,
            enabled            |-> FALSE,
            requests_this_hour |-> 0,
            last_request_time  |-> NoTime,
            rate_limited_until |-> NoTime,
            last_error         |-> ""]

\* is_available whose lazy reset puts all four health fields back to their
\* initial values.
is_available_resets_all_fields(a, t) ==
    IF ~a.enabled
    THEN [ret |-> FALSE, acc |-> a]
    ELSE IF a.rate_limited_until # NoTime /\ t < a.rate_limited_until
    THEN [ret |-> FALSE, acc |-> a]
    ELSE LET b == IF a.rate_limited_until # NoTime
                  THEN [a EXCEPT !.rate_limited_until = NoTime,
                                 !.requests_this_hour = 0,
                                 !.last_request_time = NoTime,
                                 !.last_error = ""]
                  ELSE a
         IN  [ret |-> ~(b.requests_this_hour >= HourlyLimit), acc |-> b]

\* is_available with the quota compared by > : an account stays selectable
\* with exactly HourlyLimit requests.
is_available_quota_off_by_one(a, t) ==
    IF ~a.enabled
    THEN [ret |-> FALSE, acc |-> a]
    ELSE IF a.rate_limited_until # NoTime /\ t < a.rate_limited_until
    THEN [ret |-> FALSE, acc |-> a]
    ELSE LET b == IF a.rate_limited_until # NoTime
                  THEN [a EXCEPT !.rate_limited_until = NoTime,
                                 !.requests_this_hour = 0]
                  ELSE a
         IN  [ret |-> ~(b.requests_this_hour > HourlyLimit), acc |-> b]

\* is_available whose lazy reset clears the deadline but not the counter.
is_available_keeps_counter(a, t) ==
    IF ~a.enabled
    THEN [ret |-> FALSE, acc |-> a]
    ELSE IF a.rate_limited_until # NoTime /\ t < a.rate_limited_until
    THEN [ret |-> FALSE, acc |-> a]
    ELSE LET b == IF a.rate_limited_until # NoTime
                  THEN [a EXCEPT !.rate_limited_until = NoTime]
                  ELSE a
         IN  [ret |-> ~(b.requests_this_hour >= HourlyLimit), acc |-> b]

\* is_available without the test of the enabled flag.
is_available_ignores_enabled(a, t) ==
    IF a.rate_limited_until # NoTime /\ t < a.rate_limited_until
    THEN [ret |-> FALSE, acc |-> a]
    ELSE LET b == IF a.rate_limited_until # NoTime
                  THEN [a EXCEPT !.rate_limited_until = NoTime,
                                 !.requests_this_hour = 0]
                  ELSE a
         IN  [ret |-> ~(b.requests_this_hour >= HourlyLimit), acc |-> b]

\* The property is_available evaluated at time t: its result and the object
\* as the evaluation leaves it (the lazy reset is a side effect).
is_available(a, t) ==
    IF ~a.enabled
    THEN [ret |-> FALSE, acc |-> a]
    ELSE IF a.rate_limited_until # NoTime /\ t < a.rate_limited_until
    THEN [ret |-> FALSE, acc |-> a]
    ELSE LET b == IF a.rate_limited_until # NoTime
                  THEN [a EXCEPT !.rate_limited_until = NoTime,
                                 !.requests_this_hour = 0]
                  ELSE a
         IN  [ret |-> ~(b.requests_this_hour >= HourlyLimit), acc |-> b]

record_request(a, t) ==
    [a EXCEPT !.requests_this_hour = @ + 1, !.last_request_time = t]

mark_rate_limited(a, t, duration_minutes) ==
    [a EXCEPT !.rate_limited_until = t + duration_minutes]

\* reset_hourly_counter that also ends a cooldown.
reset_hourly_counter_clears_deadline(a) ==
    [a EXCEPT !.requests_this_hour = 0, !.rate_limited_until = NoTime]

\* reset_hourly_counter that also puts the account back into service.
reset_hourly_counter_reenables(a) ==
    [a EXCEPT !.requests_this_hour = 0, !.enabled = TRUE]

reset_hourly_counter(a) ==
    [a EXCEPT !.requests_this_hour = 0]

----------------------------------------------------------------------------
(* The heap of AccountInfo objects *)

\* Objects that the pool or a call still references.
Referenced(accts, cs) ==
    (Range(accts) \cup {cs[c].account : c \in DOMAIN cs}) \ {NoAccount}

\* Unreferenced objects are reclaimed.
Collect(h, accts, cs) ==
    [o \in ObjIds |-> IF o \in Referenced(accts, cs) THEN h[o] ELSE FreeObj]

FreeIds(h) == {o \in ObjIds : h[o].username = NoUser}

\* Append one new AccountInfo per entry of `entries` to the list `accts`.
RECURSIVE AppendAccounts(_, _, _)
AppendAccounts(h, accts, entries) ==
    IF entries = <<>>
    THEN [heap |-> h, accounts |-> accts]
    ELSE LET o == CHOOSE x \in FreeIds(h) : \A y \in FreeIds(h) : x <= y
         IN  AppendAccounts(
                 [h EXCEPT ![o] = AccountInfo(Head(entries).username,
                                              Head(entries).enabled)],
                 Append(accts, o), Tail(entries))

----------------------------------------------------------------------------
(* The record of the last operation: what was called and what it gave back *)

Last(op, ret, exc) ==
    [op |-> op, ret |-> ret, exc |-> exc, who |-> NoUser, call |-> 0,
     resets |-> 0, failed |-> <<>>, avail |-> {}, key |-> 0, val |-> "",
     require_auth |-> FALSE, loader |-> NoUser, runs |-> 0, status |-> 0,
     message |-> <<>>, tried |-> <<>>, hit |-> FALSE, asked |-> <<>>,
     served |-> <<>>, engine |-> 0]

\* The accounts of the list `accts` that an is_available evaluation at time t
\* resets lazily (deadline set and passed, account enabled).
LazyResets(h, accts, t) ==
    {o \in Range(accts) : /\ h[o].enabled
                          /\ h[o].rate_limited_until # NoTime
                          /\ ~(t < h[o].rate_limited_until)}

----------------------------------------------------------------------------
(* AccountManager *)

\* The while loop of get_next_account, from the given cursor and attempt count.
\* accts[idx + 1] is the 0-based self._accounts[idx]; an index outside the
\* list raises IndexError before anything is changed.
RECURSIVE RoundRobin(_, _, _, _, _)
RoundRobin(h, accts, idx, attempts, t) ==
    IF ~(attempts < Len(accts))
    THEN [ret |-> NoAccount, exc |-> "", heap |-> h, idx |-> idx]
    ELSE IF ~(idx + 1 \in 1..Len(accts))
    THEN [ret |-> NoAccount, exc |-> "IndexError", heap |-> h, idx |-> idx]
    ELSE LET o  == accts[idx + 1]
             ev == is_available(h[o], t)
             h2 == [h EXCEPT ![o] = ev.acc]
             i2 == (idx + 1) % Len(accts)
         IN  IF ev.ret
             THEN [ret |-> o, exc |-> "", heap |-> h2, idx |-> i2]
             ELSE RoundRobin(h2, accts, i2, attempts + 1, t)

get_next_account(h, accts, idx, t) ==
    IF accts = <<>>
    THEN [ret |-> NoAccount, exc |-> "", heap |-> h, idx |-> idx]
    ELSE RoundRobin(h, accts, idx, 0, t)

\* is_available evaluated on every account of the list, in list order:
\* the heap afterwards and the accounts that evaluated to True.
RECURSIVE EvalAll(_, _, _, _)
EvalAll(h, accts, i, t) ==
    IF i > Len(accts)
    THEN [heap |-> h, avail |-> {}]
    ELSE LET o    == accts[i]
             ev   == is_available(h[o], t)
             rest == EvalAll([h EXCEPT ![o] = ev.acc], accts, i + 1, t)
         IN  [heap  |-> rest.heap,
              avail |-> IF ev.ret THEN rest.avail \cup {o} ELSE rest.avail]

\* The first account of the list with this username (get_account_by_username,
\* and the scan of remove_account): its 1-based position, 0 when there is none.
IndexOfUsername(h, accts, u) ==
    IF \E i \in 1..Len(accts) : h[accts[i]].username = u
    THEN CHOOSE i \in 1..Len(accts) :
             /\ h[accts[i]].username = u
             /\ \A j \in 1..(i - 1) : h[accts[j]].username # u
    ELSE 0

get_account_by_username(h, accts, u) ==
    IF IndexOfUsername(h, accts, u) = 0 THEN NoAccount
    ELSE accts[IndexOfUsername(h, accts, u)]

\* A deletion that drops the last entry of the list, whatever i is.
DeleteAt_drops_last(accts, i) ==
    [j \in 1..(Len(accts) - 1) |-> accts[j]]

\* del self._accounts[i]
DeleteAt(accts, i) ==
    [j \in 1..(Len(accts) - 1) |-> IF j < i THEN accts[j] ELSE accts[j + 1]]

----------------------------------------------------------------------------
(* Inputs *)

Entry(u, en) == [username |-> u, enabled |-> en, ok |-> TRUE]
\* An entry without "username" or "password": acc["username"] raises KeyError.
BadEntry     == [username |-> NoUser, enabled |-> TRUE, ok |-> FALSE]

\* accounts.json as load_from_file may find it.
FileContents ==
    { [exists |-> FALSE, readable |-> FALSE, entries |-> <<>>],
      [exists |-> TRUE,  readable |-> FALSE, entries |-> <<>>],
      [exists |-> TRUE,  readable |-> TRUE,  entries |-> <<>>],
      [exists |-> TRUE,  readable |-> TRUE,  entries |-> <<Entry("a1", TRUE)>>],
      [exists |-> TRUE,  readable |-> TRUE,
       entries |-> <<Entry("a1", TRUE), Entry("a2", FALSE)>>],
      [exists |-> TRUE,  readable |-> TRUE,
       entries |-> <<Entry("a2", TRUE), BadEntry, Entry("a1", TRUE)>>] }

\* INSTAGRAM_ACCOUNTS as load_from_env may find it, already decoded.
EnvContents ==
    { <<>>, <<Entry("a1", TRUE)>>, <<Entry("a2", FALSE), Entry("a3", TRUE)>> }

\* The prefix of `entries` before the first entry that raises.
RECURSIVE GoodPrefix(_)
GoodPrefix(entries) ==
    IF entries = <<>> \/ ~Head(entries).ok THEN <<>>
    ELSE <<Head(entries)>> \o GoodPrefix(Tail(entries))

----------------------------------------------------------------------------
(* Operations of AccountManager and of the account routes *)

\* last.val tells how the call ended: the file was not there, an exception was
\* caught and logged, or the accounts were loaded.
load_from_file(f) ==
    /\ IF ~f.exists \/ ~f.readable
       THEN /\ UNCHANGED <<heap, accounts>>
            /\ last' = [Last("load_from_file", 0, "") EXCEPT
                           !.val = IF f.exists THEN "failed" ELSE "missing"]
       ELSE LET good == GoodPrefix(f.entries)
                r    == AppendAccounts(Collect(heap, <<>>, calls), <<>>, good)
            IN  /\ heap' = r.heap
                /\ accounts' = r.accounts
                /\ last' = [Last("load_from_file",
                                 IF Len(good) = Len(f.entries)
                                 THEN Len(r.accounts) ELSE 0, "") EXCEPT
                               !.val = IF Len(good) = Len(f.entries)
                                       THEN "loaded" ELSE "failed"]
    /\ UNCHANGED <<sideVars, current_index, now, engineVars, cacheVars, execVars>>

load_from_env(entries) ==
    /\ Len(accounts) + Len(entries) <= MaxAccounts
    /\ LET r == AppendAccounts(Collect(heap, accounts, calls), accounts,
                               entries)
       IN  /\ heap' = r.heap
           /\ accounts' = r.accounts
           /\ last' = Last("load_from_env", Len(entries), "")
    /\ UNCHANGED <<sideVars, current_index, now, engineVars, cacheVars, execVars>>

add_account(u) ==
    /\ IF \E i \in 1..Len(accounts) : heap[accounts[i]].username = u
       THEN /\ UNCHANGED <<heap, accounts>>
            /\ last' = [Last("add_account", 0, "") EXCEPT !.who = u]
       ELSE /\ Len(accounts) < MaxAccounts
            /\ LET r == AppendAccounts(Collect(heap, accounts, calls), accounts,
                                       <<Entry(u, TRUE)>>)
               IN  /\ heap' = r.heap
                   /\ accounts' = r.accounts
            /\ last' = [Last("add_account", 1, "") EXCEPT !.who = u]
    /\ UNCHANGED <<sideVars, current_index, now, engineVars, cacheVars, execVars>>

remove_account(u) ==
    /\ LET i == IndexOfUsername(heap, accounts, u)
       IN  IF i = 0
           THEN /\ UNCHANGED <<heap, accounts>>
                /\ last' = [Last("remove_account", 0, "") EXCEPT !.who = u]
           ELSE /\ accounts' = DeleteAt(accounts, i)
                /\ heap' = Collect(heap, accounts', calls)
                /\ last' = [Last("remove_account", 1, "") EXCEPT !.who = u]
    /\ UNCHANGED <<sideVars, current_index, now, engineVars, cacheVars, execVars>>

GetNextAccount ==
    /\ LET g == get_next_account(heap, accounts, current_index, now)
       IN  /\ heap' = g.heap
           /\ current_index' = g.idx
           /\ last' = [Last("get_next_account", g.ret, g.exc) EXCEPT
                          !.resets = Cardinality({o \in Range(accounts) :
                                          heap[o] # g.heap[o]})]
    /\ UNCHANGED <<sideVars, accounts, now, engineVars, cacheVars, execVars>>

\* random.choice(available) may give any of the available accounts.
GetRandomAccount ==
    /\ LET e == EvalAll(heap, accounts, 1, now)
       IN  /\ heap' = e.heap
           /\ \E o \in (IF e.avail = {} THEN {NoAccount} ELSE e.avail) :
                  last' = [Last("get_random_account", o, "") EXCEPT
                              !.avail = e.avail]
    /\ UNCHANGED <<sideVars, accounts, current_index, now, engineVars, cacheVars, execVars>>

\* The property available_count: is_available of every account.
AvailableCount ==
    /\ LET e == EvalAll(heap, accounts, 1, now)
       IN  /\ heap' = e.heap
           /\ last' = [Last("available_count", Cardinality(e.avail), "") EXCEPT
                          !.avail = e.avail,
                          !.resets = Cardinality(LazyResets(heap, accounts, now))]
    /\ UNCHANGED <<sideVars, accounts, current_index, now, engineVars, cacheVars, execVars>>

\* GET /accounts/next with the cursor left where get_next_account put it.
preview_next_account_consumes ==
    /\ LET g == get_next_account(heap, accounts, current_index, now)
       IN  /\ heap' = g.heap
           /\ current_index' = g.idx
           /\ last' = Last("preview_next_account", g.ret, g.exc)
    /\ UNCHANGED <<sideVars, accounts, now, engineVars, cacheVars, execVars>>

\* GET /accounts/next: get_next_account, then the cursor moved back by one.
preview_next_account ==
    /\ LET g == get_next_account(heap, accounts, current_index, now)
       IN  /\ heap' = g.heap
           /\ current_index' =
                  IF g.ret # NoAccount
                  THEN (IF accounts # <<>>
                        THEN (g.idx - 1) % Len(accounts) ELSE 0)
                  ELSE g.idx
           /\ last' = Last("preview_next_account", g.ret, g.exc)
    /\ UNCHANGED <<sideVars, accounts, now, engineVars, cacheVars, execVars>>

enable_account(u) ==
    /\ LET o == get_account_by_username(heap, accounts, u)
       IN  IF o = NoAccount
           THEN /\ UNCHANGED heap
                /\ last' = [Last("enable_account", 404, "HTTPException")
                               EXCEPT !.who = u]
           ELSE /\ heap' = [heap EXCEPT ![o].enabled = TRUE]
                /\ last' = [Last("enable_account", o, "") EXCEPT !.who = u]
    /\ UNCHANGED <<sideVars, accounts, current_index, now, engineVars, cacheVars, execVars>>

disable_account(u) ==
    /\ LET o == get_account_by_username(heap, accounts, u)
       IN  IF o = NoAccount
           THEN /\ UNCHANGED heap
                /\ last' = [Last("disable_account", 404, "HTTPException")
                               EXCEPT !.who = u]
           ELSE /\ heap' = [heap EXCEPT ![o].enabled = FALSE]
                /\ last' = [Last("disable_account", o, "") EXCEPT !.who = u]
    /\ UNCHANGED <<sideVars, accounts, current_index, now, engineVars, cacheVars, execVars>>

\* One round of reset_loop: every account of the list is reset.
HourlyReset ==
    /\ heap' = [o \in ObjIds |-> IF o \in Range(accounts)
                                 THEN reset_hourly_counter(heap[o])
                                 ELSE heap[o]]
    /\ last' = Last("reset_hourly_counter", 0, "")
    /\ UNCHANGED <<sideVars, accounts, current_index, now, engineVars, cacheVars, execVars>>

\* AccountInfo.mark_rate_limited() called on an account of the pool.
MarkRateLimited(o) ==
    /\ o \in Range(accounts)
    /\ heap' = [heap EXCEPT ![o] = mark_rate_limited(@, now, RateLimitMinutes)]
    /\ last' = Last("mark_rate_limited", o, "")
    /\ UNCHANGED <<sideVars, accounts, current_index, now, engineVars, cacheVars, execVars>>

\* The wall clock moves on.
NowSteps == {59, 60, 61}

Tick(d) ==
    /\ now + d <= MaxNow
    /\ now' = now + d
    /\ last' = Last("tick", d, "")
    /\ UNCHANGED <<sideVars, heap, accounts, current_index, engineVars, cacheVars, execVars>>

----------------------------------------------------------------------------
(* InstaloaderService *)

\* The session sources of _get_loader_for_account, every one attempted
\* whether or not an earlier one has already given a session.
session_attempts_all(u, envs, files, logins, bad) ==
    (IF u \in envs \/ <<"env", u>> \in bad
     THEN <<[source |-> "env", ok |-> u \in envs]>> ELSE <<>>)
    \o (IF u \in files \/ <<"file", u>> \in bad
        THEN <<[source |-> "file", ok |-> u \in files]>> ELSE <<>>)
    \o <<[source |-> "login", ok |-> u \in logins]>>

\* The attempts _get_loader_for_account makes to get a session for username
\* u, in the order it makes them, each with its result.  `envs` and `files`
\* are the usernames with a loadable blob in INSTAGRAM_SESSIONS and a
\* loadable session file; `bad` holds <<source, username>> for data that is
\* there but raises when it is unpickled (a session file saved by a later
\* login replaces it); `logins` are the usernames whose login() and
\* save_session_to_file() succeed.
session_attempts(u, envs, files, logins, bad) ==
    LET blob      == IF u \in envs \/ <<"env", u>> \in bad
                     THEN <<[source |-> "env", ok |-> u \in envs]>>
                     ELSE <<>>
        loaded1   == u \in envs
        file      == IF (u \in files \/ <<"file", u>> \in bad) /\ ~loaded1
                     THEN <<[source |-> "file", ok |-> u \in files]>>
                     ELSE <<>>
        loaded2   == loaded1 \/ (file # <<>> /\ u \in files)
        login     == IF ~loaded2
                     THEN <<[source |-> "login", ok |-> u \in logins]>>
                     ELSE <<>>
    IN  blob \o file \o login

\* _get_loader_for_account for the account object o: the cached loader of its
\* username, or a new one whose session comes from the first source that
\* works: INSTAGRAM_SESSIONS, the session file, a fresh login (which saves the
\* session file).  When the login fails too, last_error is set and the
\* exception is raised (ok = FALSE).  `tried` lists the attempts made.
get_loader_for_account(h, o, lds, envs, files, logins, bad) ==
    LET u   == h[o].username
        att == session_attempts(u, envs, files, logins, bad)
        won == att[Len(att)]
    IN  IF u \in lds
        THEN [ok |-> TRUE, source |-> "cached", heap |-> h, loaders |-> lds,
              files |-> files, tried |-> <<>>]
        ELSE IF won.ok
        THEN [ok |-> TRUE, source |-> won.source, heap |-> h,
              loaders |-> lds \cup {u},
              files |-> IF won.source = "login" THEN files \cup {u}
                        ELSE files,
              tried |-> att]
        ELSE [ok |-> FALSE, source |-> "",
              heap |-> [h EXCEPT ![o].last_error = "login failed"],
              loaders |-> lds, files |-> files, tried |-> att]

\* _get_rotated_loader that gives up after the first construction failure:
\* the account is disabled and the default loader is used at once.
get_rotated_loader_no_retry(h, accts, idx, t, lds, envs, files, logins, dflt, failed) ==
    LET g == get_next_account(h, accts, idx, t)
    IN  IF g.exc # ""
        THEN [exc |-> g.exc, loader |-> NoUser, account |-> NoAccount,
              heap |-> g.heap, idx |-> g.idx, loaders |-> lds,
              files |-> files, dflt |-> dflt, failed |-> failed]
        ELSE IF g.ret # NoAccount
        THEN LET c == get_loader_for_account(g.heap, g.ret, lds, envs, files,
                                             logins, corrupt)
             IN  IF c.ok
                 THEN [exc |-> "", loader |-> g.heap[g.ret].username,
                       account |-> g.ret, heap |-> c.heap, idx |-> g.idx,
                       loaders |-> c.loaders, files |-> c.files,
                       dflt |-> dflt, failed |-> failed]
                 ELSE [exc |-> "", loader |-> "default",
                       account |-> NoAccount,
                       heap |-> [c.heap EXCEPT ![g.ret].enabled = FALSE],
                       idx |-> g.idx, loaders |-> c.loaders,
                       files |-> c.files, dflt |-> TRUE,
                       failed |-> Append(failed, g.ret)]
        ELSE [exc |-> "", loader |-> "default", account |-> NoAccount,
              heap |-> g.heap, idx |-> g.idx, loaders |-> lds,
              files |-> files, dflt |-> TRUE, failed |-> failed]

\* _get_rotated_loader: the next available account and its loader; an account
\* whose loader cannot be built is disabled and the selection is repeated;
\* without an account, the default loader (_get_loader, created on first use).
\* `failed` lists the accounts whose construction failed in this call, one
\* entry per failed attempt.
RECURSIVE get_rotated_loader(_, _, _, _, _, _, _, _, _, _)
get_rotated_loader(h, accts, idx, t, lds, envs, files, logins, dflt, failed) ==
    LET g == get_next_account(h, accts, idx, t)
    IN  IF g.exc # ""
        THEN [exc |-> g.exc, loader |-> NoUser, account |-> NoAccount,
              heap |-> g.heap, idx |-> g.idx, loaders |-> lds,
              files |-> files, dflt |-> dflt, failed |-> failed]
        ELSE IF g.ret # NoAccount
        THEN LET c == get_loader_for_account(g.heap, g.ret, lds, envs, files,
                                             logins, corrupt)
             IN  IF c.ok
                 THEN [exc |-> "", loader |-> g.heap[g.ret].username,
                       account |-> g.ret, heap |-> c.heap, idx |-> g.idx,
                       loaders |-> c.loaders, files |-> c.files,
                       dflt |-> dflt, failed |-> failed]
                 ELSE get_rotated_loader(
                          [c.heap EXCEPT ![g.ret].enabled = FALSE],
                          accts, g.idx, t, c.loaders, envs, c.files, logins,
                          dflt, Append(failed, g.ret))
        ELSE [exc |-> "", loader |-> "default", account |-> NoAccount,
              heap |-> g.heap, idx |-> g.idx, loaders |-> lds,
              files |-> files, dflt |-> TRUE, failed |-> failed]

\* What the unit of work can do: return, or raise one of these.
Outcomes == {"ok", "TooManyRequestsException", "ConnectionException"}

\* The exceptions a unit of work can raise: those of instaloader.exceptions the
\* service imports, another one of the library, and one from outside it.
UpstreamFailures ==
    {"BadCredentialsException", "TwoFactorAuthRequiredException",
     "LoginRequiredException", "ProfileNotExistsException",
     "PrivateProfileNotFollowedException", "QueryReturnedNotFoundException",
     "TooManyRequestsException", "ConnectionException",
     "BadResponseException", "InstaloaderException", "ValueError"}

\* The base class of each: the rate-limit and the not-found exception of
\* the library derive from its ConnectionException.
BaseOf(cls) ==
    IF cls \in {"TooManyRequestsException", "QueryReturnedNotFoundException"}
    THEN "ConnectionException"
    ELSE IF cls \in {"InstaloaderException", "ValueError"}
    THEN "Exception"
    ELSE "InstaloaderException"

\* isinstance(exc, cls), for an exception of class exc.
RECURSIVE isinstance(_, _)
isinstance(exc, cls) ==
    \/ exc = cls
    \/ exc # "Exception" /\ isinstance(BaseOf(exc), cls)

\* The outward errors of app.core.exceptions and their status codes.
APIError(kind) ==
    [kind |-> kind,
     status_code |->
         IF kind \in {"InvalidCredentialsError", "TwoFactorRequiredError",
                      "LoginRequiredError"} THEN 401
         ELSE IF kind \in {"ProfileNotFoundError", "PostNotFoundError"}
         THEN 404
         ELSE IF kind = "PrivateProfileError" THEN 403
         ELSE IF kind = "RateLimitError" THEN 429
         ELSE IF kind = "ServiceUnavailableError" THEN 503
         ELSE 500]

\* str(exc) of an upstream exception: the text the scraping library or the
\* network stack put into it.
RawText == "str(exc)"

\* The message of the outward error map_instaloader_exception builds, as the
\* pieces of its f-string (app.core.exceptions gives each kind its format).
exception_message(kind, exc) ==
    CASE kind = "InvalidCredentialsError" ->
             <<"Invalid Instagram credentials">>
      [] kind = "TwoFactorRequiredError" ->
             <<"Two-factor authentication required">>
      [] kind = "LoginRequiredError" -> <<"Login required for ", RawText>>
      [] kind = "ProfileNotFoundError" ->
             <<"Profile '", RawText, "' not found">>
      [] kind = "PrivateProfileError" ->
             <<"Profile '", RawText, "' is private and not followed">>
      [] kind = "PostNotFoundError" ->
             <<"Post with shortcode '", RawText, "' not found">>
      [] kind = "RateLimitError" -> <<RawText>>
      [] kind = "ServiceUnavailableError" ->
             <<"Instagram connection error: ", RawText>>
      [] OTHER ->
             IF isinstance(exc, "InstaloaderException")
             THEN <<RawText>>
             ELSE <<"Unexpected error: ", RawText>>

\* map_instaloader_exception with the test for ConnectionException made
\* before the tests for its subclasses.
map_instaloader_exception_connection_first(exc) ==
    IF isinstance(exc, "BadCredentialsException")
    THEN APIError("InvalidCredentialsError")
    ELSE IF isinstance(exc, "TwoFactorAuthRequiredException")
    THEN APIError("TwoFactorRequiredError")
    ELSE IF isinstance(exc, "LoginRequiredException")
    THEN APIError("LoginRequiredError")
    ELSE IF isinstance(exc, "ProfileNotExistsException")
    THEN APIError("ProfileNotFoundError")
    ELSE IF isinstance(exc, "PrivateProfileNotFollowedException")
    THEN APIError("PrivateProfileError")
    ELSE IF isinstance(exc, "ConnectionException")
    THEN APIError("ServiceUnavailableError")
    ELSE IF isinstance(exc, "QueryReturnedNotFoundException")
    THEN APIError("PostNotFoundError")
    ELSE IF isinstance(exc, "TooManyRequestsException")
    THEN APIError("RateLimitError")
    ELSE APIError("APIException")

\* map_instaloader_exception: the chain of isinstance tests, in its order.
map_instaloader_exception(exc) ==
    IF isinstance(exc, "BadCredentialsException")
    THEN APIError("InvalidCredentialsError")
    ELSE IF isinstance(exc, "TwoFactorAuthRequiredException")
    THEN APIError("TwoFactorRequiredError")
    ELSE IF isinstance(exc, "LoginRequiredException")
    THEN APIError("LoginRequiredError")
    ELSE IF isinstance(exc, "ProfileNotExistsException")
    THEN APIError("ProfileNotFoundError")
    ELSE IF isinstance(exc, "PrivateProfileNotFollowedException")
    THEN APIError("PrivateProfileError")
    ELSE IF isinstance(exc, "QueryReturnedNotFoundException")
    THEN APIError("PostNotFoundError")
    ELSE IF isinstance(exc, "TooManyRequestsException")
    THEN APIError("RateLimitError")
    ELSE IF isinstance(exc, "ConnectionException")
    THEN APIError("ServiceUnavailableError")
    ELSE IF isinstance(exc, "InstaloaderException")
    THEN APIError("APIException")
    ELSE APIError("APIException")

\* A call: where it is, and what it holds while its unit of work runs.
IdleCall == [pc |-> "idle", kind |-> "", account |-> NoAccount,
             loader |-> NoUser]
DoneCall == [pc |-> "done", kind |-> "", account |-> NoAccount,
             loader |-> NoUser]

\* What _run_with_rotation does with the result r of _get_rotated_loader, up
\* to handing the unit of work to the executor: the exception it raises
\* ("" when the unit of work is handed over) and the status that goes with it.
run_with_rotation_start(r, require_auth, user) ==
    IF r.exc # ""
    THEN [exc |-> r.exc, status |-> 500, runs |-> 0]
    ELSE IF require_auth /\ r.account = NoAccount /\ user = NoUser
    THEN [exc |-> "LoginRequiredError", status |-> 401, runs |-> 0]
    ELSE [exc |-> "", status |-> 0, runs |-> 1]

\* The account of a call after the unit of work ended with `outcome`:
\* record_request on success, mark_rate_limited on the rate-limit signal,
\* last_error on any other exception.
run_with_rotation_account(a, outcome, t) ==
    IF outcome = "ok" THEN record_request(a, t)
    ELSE IF outcome = "TooManyRequestsException"
    THEN mark_rate_limited(a, t, RateLimitMinutes)
    ELSE [a EXCEPT !.last_error = outcome]

\* What the call gives its caller after the unit of work ended with `outcome`.
\* The unit of work is not handed to the executor again.
run_with_rotation_end(outcome) ==
    IF outcome = "ok"
    THEN [exc |-> "", status |-> 200, runs |-> 0, message |-> <<>>]
    ELSE [exc |-> map_instaloader_exception(outcome).kind,
          status |-> map_instaloader_exception(outcome).status_code,
          runs |-> 0,
          message |-> exception_message(
                          map_instaloader_exception(outcome).kind, outcome)]

\* The first call that has not started yet.
NextCall == CHOOSE c \in DOMAIN calls :
                /\ calls[c].pc = "idle"
                /\ \A d \in DOMAIN calls : calls[d].pc = "idle" => c <= d

Select == get_rotated_loader(heap, accounts, current_index, now, loaders,
                             env_sessions, session_files, login_ok,
                             default_loader, <<>>)

\* _run_with_rotation(func, require_auth) up to `await run_in_executor`.
RunWithRotation(require_auth) ==
    /\ \E c \in DOMAIN calls : calls[c].pc = "idle"
    /\ LET r == Select
           c == NextCall
           b == run_with_rotation_start(r, require_auth, logged_in_user)
       IN  /\ calls' = [calls EXCEPT ![c] =
                   IF b.exc # "" THEN DoneCall
                   ELSE [pc |-> "running", kind |-> "rotation",
                         account |-> r.account, loader |-> r.loader]]
           /\ heap' = r.heap
           /\ current_index' = r.idx
           /\ loaders' = r.loaders
           /\ session_files' = r.files
           /\ default_loader' = r.dflt
           /\ last' = [Last("run_with_rotation", r.account, b.exc) EXCEPT
                          !.call = c, !.failed = r.failed,
                          !.require_auth = require_auth, !.loader = r.loader,
                          !.runs = b.runs, !.status = b.status]
    /\ UNCHANGED <<sideVars, accounts, now, logged_in_user, env_sessions, login_ok,
                   cacheVars, execVars>>

\* The unit of work of a _run_with_rotation call ends and the call resumes.
RunWithRotationEnd(c, outcome) ==
    /\ calls[c].pc = "running"
    /\ calls[c].kind = "rotation"
    /\ calls' = [calls EXCEPT ![c] = DoneCall]
    /\ heap' = IF calls[c].account = NoAccount THEN heap
               ELSE [heap EXCEPT ![calls[c].account] =
                         run_with_rotation_account(@, outcome, now)]
    /\ LET e == run_with_rotation_end(outcome)
       IN  last' = [Last("run_with_rotation_end", calls[c].account, e.exc)
                       EXCEPT !.call = c, !.val = outcome,
                              !.loader = calls[c].loader,
                              !.runs = e.runs, !.status = e.status,
                              !.message = e.message]
    /\ executing' = executing \ {c}
    /\ UNCHANGED <<sideVars, accounts, current_index, now, loaders, default_loader,
                   logged_in_user, env_sessions, session_files, login_ok,
                   cacheVars, max_workers>>

\* extract_highlight: _fetch_highlight takes a rotated loader on a worker
\* thread, with no check of require_auth.
FetchHighlight ==
    /\ \E c \in DOMAIN calls : calls[c].pc = "idle"
    /\ LET r == Select
           c == NextCall
       IN  /\ calls' = [calls EXCEPT ![c] =
                   IF r.exc # "" THEN DoneCall
                   ELSE [pc |-> "running", kind |-> "highlight",
                         account |-> r.account, loader |-> r.loader]]
           /\ heap' = r.heap
           /\ current_index' = r.idx
           /\ loaders' = r.loaders
           /\ session_files' = r.files
           /\ default_loader' = r.dflt
           /\ last' = [Last("fetch_highlight", r.account, r.exc) EXCEPT
                          !.call = c, !.failed = r.failed,
                          !.loader = r.loader,
                          !.runs = IF r.exc = "" THEN 1 ELSE 0]
           /\ executing' = IF r.exc = "" THEN executing \cup {c}
                           ELSE executing
    /\ UNCHANGED <<sideVars, accounts, now, logged_in_user, env_sessions, login_ok,
                   cacheVars, max_workers>>

\* The queries of _fetch_highlight end: their exceptions are swallowed and
\* nothing is recorded on the account, whatever the outcome.
FetchHighlightEnd(c, outcome) ==
    /\ calls[c].pc = "running"
    /\ calls[c].kind = "highlight"
    /\ calls' = [calls EXCEPT ![c] = DoneCall]
    /\ last' = [Last("fetch_highlight_end", calls[c].account, "") EXCEPT
                   !.call = c, !.val = outcome, !.loader = calls[c].loader,
                   !.status = 200]
    /\ executing' = executing \ {c}
    /\ UNCHANGED <<sideVars, heap, accounts, current_index, now, loaders,
                   default_loader, logged_in_user, env_sessions,
                   session_files, login_ok, cacheVars, max_workers>>

\* A thread of _executor takes the unit of work of a call handed to it: the
\* executor runs at most max_workers of them at a time, the others wait in
\* its queue.
WorkStarts(c) ==
    /\ calls[c].pc = "running"
    /\ calls[c].kind = "rotation"
    /\ c \notin executing
    /\ Cardinality({d \in executing : calls[d].kind = "rotation"})
           < max_workers
    /\ executing' = executing \cup {c}
    /\ last' = [Last("work_starts", calls[c].account, "") EXCEPT !.call = c]
    /\ UNCHANGED <<sideVars, poolVars, engineVars, cacheVars, max_workers>>

\* The unit of work a thread of _executor is executing ends.
WorkEnds(c, outcome) ==
    /\ c \in executing
    /\ RunWithRotationEnd(c, outcome)

\* The caller of _run_with_rotation is cancelled at `await run_in_executor`:
\* CancelledError is no Exception, so no except clause of the call catches
\* it. A unit of work still in the queue is dropped; one a thread is already
\* executing is not interrupted.
Cancel(c) ==
    /\ calls[c].pc = "running"
    /\ calls[c].kind = "rotation"
    /\ calls' = [calls EXCEPT ![c] =
                    IF c \in executing THEN [@ EXCEPT !.pc = "abandoned"]
                    ELSE DoneCall]
    /\ last' = [Last("cancel", calls[c].account, "CancelledError") EXCEPT
                   !.call = c, !.loader = calls[c].loader,
                   !.runs = IF c \in executing THEN 1 ELSE 0]
    /\ UNCHANGED <<sideVars, poolVars, loaders, default_loader, logged_in_user,
                   env_sessions, session_files, login_ok, cacheVars, execVars>>

\* The unit of work of a cancelled call ends: its result goes to a future
\* nobody awaits, and the code after the await never runs.
AbandonedWorkEnds(c, outcome) ==
    /\ calls[c].pc = "abandoned"
    /\ c \in executing
    /\ calls' = [calls EXCEPT ![c] = DoneCall]
    /\ executing' = executing \ {c}
    /\ last' = [Last("abandoned_work_end", calls[c].account, "") EXCEPT
                   !.call = c, !.val = outcome, !.loader = calls[c].loader]
    /\ UNCHANGED <<sideVars, poolVars, loaders, default_loader, logged_in_user,
                   env_sessions, session_files, login_ok, cacheVars,
                   max_workers>>

----------------------------------------------------------------------------
(* InMemoryCache *)

Keys     == {1, 2}            \* keys the cache operations are called with
Values   == {"v1", "v2"}
TTLs     == {1, 2}
Absent   == ""                \* None where a cached value is expected

\* Entries that earlier requests left in the cache: CacheSize - 1 of them,
\* with keys apart from Keys and expiry instants 1, 2, 3, 1, 2, 3, ...
FillerKey(i) == 100 + i
Fillers ==
    [i \in 1..(CacheSize - 1) |->
        [key |-> FillerKey(i), value |-> "v1", expires_at |-> 1 + (i % 3)]]

CacheKeys(c) == {c[i].key : i \in 1..Len(c)}

\* Position of key k in the dict (0 when absent).
CachePos(c, k) ==
    IF k \in CacheKeys(c) THEN CHOOSE i \in 1..Len(c) : c[i].key = k ELSE 0

\* The dict without the entries at the positions in `gone`.
RECURSIVE Without(_, _, _)
Without(c, gone, i) ==
    IF i > Len(c) THEN <<>>
    ELSE IF i \in gone THEN Without(c, gone, i + 1)
    ELSE <<c[i]>> \o Without(c, gone, i + 1)

\* sorted(keys, key=expiry)[:n] of a dict: sorted() is stable, so among equal
\* expiries the earlier inserted comes first.  The positions of those n.
OldestPositions(c, n) ==
    {i \in 1..Len(c) :
        Cardinality({j \in 1..Len(c) :
            \/ c[j].expires_at < c[i].expires_at
            \/ (c[j].expires_at = c[i].expires_at /\ j < i)}) < n}

\* InMemoryCache.get that still serves an entry at its expiry instant.
cache_get_serves_at_expiry(c, k, t) ==
    IF k \in CacheKeys(c)
    THEN LET e == c[CachePos(c, k)]
         IN  IF t <= e.expires_at
             THEN [ret |-> e.value, cache |-> c, hit |-> TRUE]
             ELSE [ret |-> Absent, cache |-> Without(c, {CachePos(c, k)}, 1),
                   hit |-> FALSE]
    ELSE [ret |-> Absent, cache |-> c, hit |-> FALSE]

\* InMemoryCache.get at time t: the value returned (hit: it is not None) and
\* the dict afterwards.
cache_get(c, k, t) ==
    IF k \in CacheKeys(c)
    THEN LET e == c[CachePos(c, k)]
         IN  IF t < e.expires_at
             THEN [ret |-> e.value, cache |-> c, hit |-> TRUE]
             ELSE [ret |-> Absent, cache |-> Without(c, {CachePos(c, k)}, 1),
                   hit |-> FALSE]
    ELSE [ret |-> Absent, cache |-> c, hit |-> FALSE]

\* InMemoryCache.set at time t: the dict afterwards.
cache_set(c, size, k, v, ttl, t) ==
    LET kept == IF Len(c) >= size
                THEN Without(c, OldestPositions(c, size \div 10), 1)
                ELSE c
        e    == [key |-> k, value |-> v, expires_at |-> t + ttl]
    IN  IF k \in CacheKeys(kept)
        THEN [kept EXCEPT ![CachePos(kept, k)] = e]
        ELSE Append(kept, e)

cache_delete(c, k) ==
    IF k \in CacheKeys(c) THEN Without(c, {CachePos(c, k)}, 1) ELSE c

CacheGet(k) ==
    /\ LET g == cache_get(cache, k, time)
       IN  /\ cache' = g.cache
           /\ last' = [Last("cache_get", 0, "") EXCEPT !.key = k,
                                                       !.val = g.ret]
    /\ UNCHANGED <<sideVars, max_size, time, poolVars, engineVars, execVars>>

CacheSet(k, v, ttl) ==
    /\ cache' = cache_set(cache, max_size, k, v, ttl, time)
    /\ last' = [Last("cache_set", ttl, "") EXCEPT !.key = k, !.val = v]
    /\ UNCHANGED <<sideVars, max_size, time, poolVars, engineVars, execVars>>

CacheDelete(k) ==
    /\ cache' = cache_delete(cache, k)
    /\ last' = [Last("cache_delete", 0, "") EXCEPT !.key = k]
    /\ UNCHANGED <<sideVars, max_size, time, poolVars, engineVars, execVars>>

CacheClear ==
    /\ cache' = <<>>
    /\ last' = Last("cache_clear", 0, "")
    /\ UNCHANGED <<sideVars, max_size, time, poolVars, engineVars, execVars>>

\* One second passes.
ClockTick ==
    /\ time < MaxClock
    /\ time' = time + 1
    /\ last' = Last("clock_tick", 0, "")
    /\ UNCHANGED <<sideVars, cache, max_size, poolVars, engineVars, execVars>>

----------------------------------------------------------------------------
(* Initial states *)

EmptyHeap == [o \in ObjIds |-> FreeObj]

\* The account list `p` as loaded: one clean AccountInfo per entry.
Loaded(p) == AppendAccounts(EmptyHeap, <<>>, p)

\* States of health an account can have got into since it was loaded.
Healths == {"clean", "busy", "quota", "cooling"}

WithHealth(a, hl) ==
    IF hl = "busy"
    THEN [a EXCEPT !.requests_this_hour = HourlyLimit - 1]
    ELSE IF hl = "quota"
    THEN [a EXCEPT !.requests_this_hour = HourlyLimit]
    ELSE IF hl = "cooling"
    THEN [a EXCEPT !.rate_limited_until = RateLimitMinutes]
    ELSE a

\* The pool holds the list p, each account in one of the states of `healths`,
\* and the cursor is anywhere in the list.
PoolIs(p, healths) ==
    LET r == Loaded(p)
    IN  /\ accounts = r.accounts
        /\ \E hl \in [Range(r.accounts) -> healths] :
               heap = [o \in ObjIds |->
                          IF o \in Range(r.accounts)
                          THEN WithHealth(r.heap[o], hl[o]) ELSE FreeObj]
        /\ current_index \in {i \in 0..Len(p) : i = 0 \/ i < Len(p)}
        /\ now = 0

EngineIdle ==
    /\ loaders = {}
    /\ default_loader = FALSE
    /\ logged_in_user = NoUser
    /\ env_sessions = {}
    /\ session_files = {}
    /\ login_ok = {}
    /\ calls = [c \in 1..MaxCalls |-> IdleCall]

CacheIdle ==
    /\ max_size = CacheSize
    /\ cache = <<>>
    /\ time = 0

\* No request parsed yet.
NoUrl == [host |-> "", path |-> <<>>, slash |-> FALSE, query |-> ""]
NoRequest == [kind |-> "none", url |-> NoUrl, type |-> "",
              identifier |-> <<>>, key |-> <<>>, args |-> <<>>,
              kwargs |-> <<>>]
ProbeIdle == probe = [prev |-> NoRequest, cur |-> NoRequest]

\* The client keys the limiter sees.
ClientKeys == {"10.0.0.1", "10.0.0.2"}

NoVerdict == [key |-> "", allowed |-> FALSE, remaining |-> 0,
              reset_seconds |-> 0, counted |-> <<>>]

\* RateLimiter(requests_limit, window_seconds) before any request.
LimiterIdle ==
    /\ requests_limit = 1
    /\ window_seconds = 1
    /\ clients = [k \in ClientKeys |-> <<>>]
    /\ admitted = [k \in ClientKeys |-> <<>>]
    /\ clock = 0
    /\ verdict = NoVerdict

\* RedisCache(url) before any use, with the library and a running server.
RedisIdle ==
    /\ redis_client = FALSE
    /\ redis_state = "up"
    /\ redis_store = <<>>

\* The threads of the process: the event loop, two threads of the loop's
\* default executor, and the hourly reset thread of the AccountManager.
Threads == {"loop", "w1", "w2", "reset"}

NoLocals == [prog |-> "", account |-> NoAccount, loader |-> <<>>,
             value |-> 0, outcome |-> ""]

\* No thread has entered the code the model follows step by step.
ThreadIdle ==
    /\ corrupt = {}
    /\ pcs = [t \in Threads |-> "start"]
    /\ locals = [t \in Threads |-> NoLocals]
    /\ held = [t \in Threads |-> {}]
    /\ constructions = [u \in Usernames |-> 0]

\* ThreadPoolExecutor(max_workers=max_concurrent_downloads), no work running.
ExecIdle ==
    /\ max_workers = max_concurrent_downloads
    /\ executing = {}

SideIdle == ProbeIdle /\ LimiterIdle /\ RedisIdle /\ ThreadIdle /\ ExecIdle

----------------------------------------------------------------------------
(* Startup: lifespan() loads accounts.json, then INSTAGRAM_ACCOUNTS *)

InitStartup ==
    /\ PoolIs(<<>>, {"clean"})
    /\ EngineIdle
    /\ CacheIdle
    /\ SideIdle
    /\ last = Last("init", 0, "")

NextStartup ==
    \/ \E f \in FileContents : load_from_file(f)
    \/ \E e \in EnvContents : load_from_env(e)

SpecStartup == InitStartup /\ [][NextStartup]_vars

----------------------------------------------------------------------------
(* The account pool while the service runs, no call of the engine in flight *)

Pools ==
    { <<>>,
      <<Entry("a1", TRUE)>>,
      <<Entry("a1", TRUE), Entry("a2", FALSE)>>,
      <<Entry("a1", TRUE), Entry("a2", TRUE), Entry("a3", TRUE)>> }

Init ==
    /\ \E p \in Pools : PoolIs(p, {"clean", "quota", "cooling"})
    /\ EngineIdle
    /\ CacheIdle
    /\ SideIdle
    /\ last = Last("init", 0, "")

Next ==
    \/ \E u \in Usernames : add_account(u)
    \/ \E u \in Usernames : remove_account(u)
    \/ \E u \in Usernames : enable_account(u)
    \/ \E u \in Usernames : disable_account(u)
    \/ GetNextAccount
    \/ GetRandomAccount
    \/ AvailableCount
    \/ preview_next_account

Spec == Init /\ [][Next]_vars

----------------------------------------------------------------------------
(* The health of the accounts of a pool as time passes *)

HealthPools ==
    { <<Entry("a1", TRUE)>>,
      <<Entry("a1", TRUE), Entry("a2", FALSE)>>,
      <<Entry("a1", TRUE), Entry("a2", TRUE)>> }

InitHealth ==
    /\ \E p \in HealthPools : PoolIs(p, {"clean", "busy", "quota"})
    /\ EngineIdle
    /\ CacheIdle
    /\ SideIdle
    /\ last = Last("init", 0, "")

NextHealth ==
    \/ \E o \in ObjIds : MarkRateLimited(o)
    \/ \E d \in NowSteps : Tick(d)
    \/ HourlyReset
    \/ AvailableCount
    \/ GetNextAccount
    \/ GetRandomAccount
    \/ \E u \in Usernames : enable_account(u)
    \/ \E u \in Usernames : disable_account(u)
    \/ \E u \in Usernames : remove_account(u)

SpecHealth == InitHealth /\ [][NextHealth]_vars

----------------------------------------------------------------------------
(* The engine: calls of _run_with_rotation and _fetch_highlight *)

\* Session sources the service may find: none at all; a login that works for
\* every account; a blob for a2 and a session file for a3, nothing for a1.
Environments ==
    { [env |-> {}, files |-> {}, logins |-> {}],
      [env |-> {}, files |-> {}, logins |-> Usernames],
      [env |-> {"a2"}, files |-> {"a3"}, logins |-> {}] }

InitEngine ==
    /\ PoolIs(<<Entry("a1", TRUE), Entry("a2", FALSE), Entry("a3", TRUE)>>,
              {"clean"})
    /\ loaders = {}
    /\ default_loader = FALSE
    /\ logged_in_user \in {NoUser, "ambient"}
    /\ \E e \in Environments :
           /\ env_sessions = e.env
           /\ session_files = e.files
           /\ login_ok = e.logins
    /\ calls = [c \in 1..MaxCalls |-> IdleCall]
    /\ CacheIdle
    /\ SideIdle
    /\ last = Last("init", 0, "")

NextEngine ==
    \/ \E b \in BOOLEAN : RunWithRotation(b)
    \/ \E c \in DOMAIN calls, o \in Outcomes : RunWithRotationEnd(c, o)
    \/ \E u \in Usernames : remove_account(u)
    \/ disable_account("a1")

SpecEngine == InitEngine /\ [][NextEngine]_vars

----------------------------------------------------------------------------
(* The two users of _get_rotated_loader side by side *)

InitHighlight ==
    /\ PoolIs(<<Entry("a1", TRUE), Entry("a2", TRUE)>>, {"clean"})
    /\ loaders = {}
    /\ default_loader = FALSE
    /\ logged_in_user = NoUser
    /\ env_sessions = {}
    /\ session_files = {}
    /\ login_ok \in {{}, Usernames}
    /\ calls = [c \in 1..MaxCalls |-> IdleCall]
    /\ CacheIdle
    /\ SideIdle
    /\ last = Last("init", 0, "")

NextHighlight ==
    \/ \E b \in BOOLEAN : RunWithRotation(b)
    \/ \E c \in DOMAIN calls, o \in Outcomes : RunWithRotationEnd(c, o)
    \/ FetchHighlight
    \/ \E c \in DOMAIN calls, o \in Outcomes : FetchHighlightEnd(c, o)

SpecHighlight == InitHighlight /\ [][NextHighlight]_vars

----------------------------------------------------------------------------
(* The executors: the units of work and the threads that run them *)

InitWorkers ==
    /\ PoolIs(<<Entry("a1", TRUE), Entry("a2", TRUE)>>, {"clean"})
    /\ loaders = {}
    /\ default_loader = FALSE
    /\ logged_in_user = NoUser
    /\ env_sessions = {}
    /\ session_files = {}
    /\ login_ok = Usernames
    /\ calls = [c \in 1..MaxCalls |-> IdleCall]
    /\ CacheIdle
    /\ ProbeIdle
    /\ LimiterIdle
    /\ RedisIdle
    /\ ThreadIdle
    /\ max_workers \in 1..MaxWorkers
    /\ executing = {}
    /\ last = Last("init", 0, "")

NextWorkers ==
    \/ RunWithRotation(FALSE)
    \/ \E c \in DOMAIN calls : WorkStarts(c)
    \/ \E c \in DOMAIN calls, o \in Outcomes : WorkEnds(c, o)
    \/ FetchHighlight
    \/ \E c \in DOMAIN calls, o \in Outcomes : FetchHighlightEnd(c, o)
    \/ \E c \in DOMAIN calls : Cancel(c)
    \/ \E c \in DOMAIN calls, o \in Outcomes : AbandonedWorkEnds(c, o)

SpecWorkers == InitWorkers /\ [][NextWorkers]_vars

----------------------------------------------------------------------------
(* The threads of the service, one step of one thread at a time.           *)
(*                                                                         *)
(* The event loop runs one of: a call of _run_with_rotation, the preview   *)
(* route, a cache write, shutdown. The threads of the default executor run *)
(* _fetch_highlight; the reset thread runs one round of reset_loop.        *)

\* The locks: AccountManager._accounts_lock, InstaloaderService._loader_lock
\* and InMemoryCache._lock.
Locks == {"accounts", "loader", "cache"}

\* The lock a thread is about to take at a `with` statement, by its position.
Wanted(pc) ==
    CASE pc \in {"start", "preview_start", "preview_back", "reset_start"} ->
             "accounts"
      [] pc \in {"get_loader", "get_default", "shutdown_start"} -> "loader"
      [] pc = "cache_start" -> "cache"
      [] OTHER -> "none"

\* The position inside the `with` block.
Inside(pc) ==
    CASE pc = "start" -> "in_get_next"
      [] pc = "preview_start" -> "in_preview_get"
      [] pc = "preview_back" -> "in_preview_back"
      [] pc = "reset_start" -> "in_reset"
      [] pc = "get_loader" -> "in_get_loader"
      [] pc = "get_default" -> "in_get_default"
      [] pc = "shutdown_start" -> "in_shutdown"
      [] pc = "cache_start" -> "in_cache"
      [] OTHER -> pc

\* A lock that lets a second thread in while the first is inside.
lock_free_loader_unguarded(l, t, h) ==
    l = "loader" \/ \A x \in Threads \ {t} : l \notin h[x]

\* Lock.acquire(): the lock l can be taken by thread t when no other thread
\* holds it.
lock_free(l, t, h) == \A x \in Threads \ {t} : l \notin h[x]

\* A `with` block that leaves without giving the pool lock back.
release_keeps_accounts(h, t, l) ==
    IF l = "accounts" THEN h ELSE [h EXCEPT ![t] = @ \ {l}]

\* The end of a `with` block: thread t gives lock l back.
release(h, t, l) == [h EXCEPT ![t] = @ \ {l}]

\* Thread t enters the `with` block it stands before.
Acquire(t) ==
    /\ Wanted(pcs[t]) # "none"
    /\ lock_free(Wanted(pcs[t]), t, held)
    /\ held' = [held EXCEPT ![t] = @ \cup {Wanted(pcs[t])}]
    /\ pcs' = [pcs EXCEPT ![t] = Inside(@)]
    /\ last' = [Last("acquire", 0, "") EXCEPT !.who = t,
                                              !.val = Wanted(pcs[t])]
    /\ UNCHANGED <<probe, limiterVars, redisVars, corrupt, locals,
                   constructions, poolVars, engineVars, cacheVars, execVars>>

\* get_next_account inside its lock, as _get_rotated_loader calls it; with no
\* account the default loader is used, created under _loader_lock when
\* _loader is still None.
GetNextBody(t) ==
    /\ pcs[t] = "in_get_next"
    /\ LET g == get_next_account(heap, accounts, current_index, now)
       IN  /\ heap' = g.heap
           /\ current_index' = g.idx
           /\ locals' = [locals EXCEPT ![t].account = g.ret,
                                       ![t].loader =
                             IF g.exc = "" /\ g.ret = NoAccount
                                /\ default_loader
                             THEN <<"default", 1>> ELSE <<>>]
           /\ pcs' = [pcs EXCEPT ![t] =
                         IF g.exc # "" THEN "done"
                         ELSE IF g.ret # NoAccount THEN "get_loader"
                         ELSE IF default_loader THEN "work"
                         ELSE "get_default"]
           /\ last' = [Last("get_next_account", g.ret, g.exc) EXCEPT
                          !.who = t]
    /\ held' = release(held, t, "accounts")
    /\ UNCHANGED <<probe, limiterVars, redisVars, corrupt, constructions,
                   accounts, now, engineVars, cacheVars, execVars>>

\* _get_loader inside _loader_lock.
GetDefaultBody(t) ==
    /\ pcs[t] = "in_get_default"
    /\ default_loader' = TRUE
    /\ locals' = [locals EXCEPT ![t].loader = <<"default", 1>>]
    /\ pcs' = [pcs EXCEPT ![t] = "work"]
    /\ held' = release(held, t, "loader")
    /\ last' = [Last("get_loader", 0, "") EXCEPT !.who = t]
    /\ UNCHANGED <<probe, limiterVars, redisVars, corrupt, constructions,
                   poolVars, loaders, logged_in_user, env_sessions,
                   session_files, login_ok, calls, cacheVars, execVars>>

\* _get_loader_for_account, the look into _loaders: a cached client is
\* returned; otherwise the thread goes on to build one, inside the lock.
CheckLoaders(t) ==
    /\ pcs[t] = "in_get_loader"
    /\ LET u == heap[locals[t].account].username
       IN  IF u \in loaders
           THEN /\ locals' = [locals EXCEPT
                                 ![t].loader = <<u, constructions[u]>>]
                /\ pcs' = [pcs EXCEPT ![t] = "work"]
                /\ held' = release(held, t, "loader")
                /\ last' = [Last("get_loader_for_account", locals[t].account,
                                 "") EXCEPT !.who = t, !.val = "cached"]
           ELSE /\ pcs' = [pcs EXCEPT ![t] = "constructing"]
                /\ last' = [Last("get_loader_for_account", locals[t].account,
                                 "") EXCEPT !.who = t, !.val = "miss"]
                /\ UNCHANGED <<locals, held>>
    /\ UNCHANGED <<probe, limiterVars, redisVars, corrupt, constructions,
                   poolVars, engineVars, cacheVars, execVars>>

\* _get_loader_for_account, the construction: the session sources are tried
\* and the client is stored in _loaders, or the login fails, last_error is
\* set and the exception leaves the `with` block.
Construct(t) ==
    /\ pcs[t] = "constructing"
    /\ LET o == locals[t].account
           u == heap[o].username
           r == get_loader_for_account(heap, o, loaders \ {u}, env_sessions,
                                       session_files, login_ok, corrupt)
       IN  /\ heap' = r.heap
           /\ session_files' = r.files
           /\ loaders' = IF r.ok THEN loaders \cup {u} ELSE loaders
           /\ constructions' = IF r.ok
                                THEN [constructions EXCEPT ![u] = @ + 1]
                                ELSE constructions
           /\ locals' = IF r.ok
                         THEN [locals EXCEPT
                                  ![t].loader = <<u, constructions[u] + 1>>]
                         ELSE locals
           /\ pcs' = [pcs EXCEPT ![t] = IF r.ok THEN "work" ELSE "failed"]
           /\ last' = [Last("construct", o, IF r.ok THEN "" ELSE "login failed")
                          EXCEPT !.who = t, !.val = r.source]
    /\ held' = release(held, t, "loader")
    /\ UNCHANGED <<probe, limiterVars, redisVars, corrupt, accounts,
                   current_index, now, default_loader, logged_in_user,
                   env_sessions, login_ok, calls, cacheVars, execVars>>

\* _get_rotated_loader after a failed construction: the account is disabled
\* and the selection starts again.
DisableAndRetry(t) ==
    /\ pcs[t] = "failed"
    /\ heap' = [heap EXCEPT ![locals[t].account].enabled = FALSE]
    /\ locals' = [locals EXCEPT ![t].account = NoAccount]
    /\ pcs' = [pcs EXCEPT ![t] = "start"]
    /\ last' = [Last("disable_failed", locals[t].account, "") EXCEPT
                   !.who = t]
    /\ UNCHANGED <<probe, limiterVars, redisVars, corrupt, held,
                   constructions, accounts, current_index, now, engineVars,
                   cacheVars, execVars>>

\* The unit of work (the queries of _fetch_highlight) ends. The event loop
\* goes on to the bookkeeping of _run_with_rotation; _fetch_highlight has
\* none.
Work(t, outcome) ==
    /\ pcs[t] = "work"
    /\ t # "loop" => outcome = "ok"
    /\ locals' = [locals EXCEPT ![t].outcome = outcome]
    /\ pcs' = [pcs EXCEPT ![t] =
                  IF t # "loop" \/ locals[t].account = NoAccount THEN "done"
                  ELSE IF outcome = "ok" THEN "record_read"
                  ELSE IF outcome = "TooManyRequestsException" THEN "mark"
                  ELSE "set_error"]
    /\ last' = [Last("work", locals[t].account, "") EXCEPT
                   !.who = t, !.val = outcome]
    /\ UNCHANGED <<probe, limiterVars, redisVars, corrupt, held,
                   constructions, poolVars, engineVars, cacheVars, execVars>>

\* record_request: `self.requests_this_hour += 1` reads the counter ...
RecordRead(t) ==
    /\ pcs[t] = "record_read"
    /\ locals' = [locals EXCEPT
                     ![t].value = heap[locals[t].account].requests_this_hour]
    /\ pcs' = [pcs EXCEPT ![t] = "record_write"]
    /\ last' = [Last("record_read", locals[t].account, "") EXCEPT !.who = t]
    /\ UNCHANGED <<probe, limiterVars, redisVars, corrupt, held,
                   constructions, poolVars, engineVars, cacheVars, execVars>>

\* ... and writes it back, one more.
RecordWrite(t) ==
    /\ pcs[t] = "record_write"
    /\ heap' = [heap EXCEPT ![locals[t].account] =
                    [@ EXCEPT !.requests_this_hour = locals[t].value + 1,
                              !.last_request_time = now]]
    /\ pcs' = [pcs EXCEPT ![t] = "done"]
    /\ last' = [Last("record_request", locals[t].account, "") EXCEPT
                   !.who = t]
    /\ UNCHANGED <<probe, limiterVars, redisVars, corrupt, held, locals,
                   constructions, accounts, current_index, now, engineVars,
                   cacheVars, execVars>>

\* except TooManyRequestsException: account.mark_rate_limited(60)
Mark(t) ==
    /\ pcs[t] = "mark"
    /\ heap' = [heap EXCEPT ![locals[t].account] =
                    mark_rate_limited(@, now, RateLimitMinutes)]
    /\ pcs' = [pcs EXCEPT ![t] = "done"]
    /\ last' = [Last("mark_rate_limited", locals[t].account, "") EXCEPT
                   !.who = t]
    /\ UNCHANGED <<probe, limiterVars, redisVars, corrupt, held, locals,
                   constructions, accounts, current_index, now, engineVars,
                   cacheVars, execVars>>

\* except Exception: account.last_error = str(exc)
SetError(t) ==
    /\ pcs[t] = "set_error"
    /\ heap' = [heap EXCEPT ![locals[t].account].last_error =
                    locals[t].outcome]
    /\ pcs' = [pcs EXCEPT ![t] = "done"]
    /\ last' = [Last("set_last_error", locals[t].account, "") EXCEPT
                   !.who = t]
    /\ UNCHANGED <<probe, limiterVars, redisVars, corrupt, held, locals,
                   constructions, accounts, current_index, now, engineVars,
                   cacheVars, execVars>>

\* preview_next_account, its get_next_account.
PreviewGet(t) ==
    /\ pcs[t] = "in_preview_get"
    /\ LET g == get_next_account(heap, accounts, current_index, now)
       IN  /\ heap' = g.heap
           /\ current_index' = g.idx
           /\ locals' = [locals EXCEPT ![t].account = g.ret]
           /\ pcs' = [pcs EXCEPT ![t] =
                         IF g.ret # NoAccount THEN "preview_back" ELSE "done"]
           /\ last' = [Last("preview_get", g.ret, g.exc) EXCEPT !.who = t]
    /\ held' = release(held, t, "accounts")
    /\ UNCHANGED <<probe, limiterVars, redisVars, corrupt, constructions,
                   accounts, now, engineVars, cacheVars, execVars>>

\* preview_next_account, the cursor moved back inside the lock taken anew.
PreviewBack(t) ==
    /\ pcs[t] = "in_preview_back"
    /\ current_index' = IF accounts # <<>>
                         THEN (current_index - 1) % Len(accounts) ELSE 0
    /\ pcs' = [pcs EXCEPT ![t] = "done"]
    /\ held' = release(held, t, "accounts")
    /\ last' = [Last("preview_back", locals[t].account, "") EXCEPT !.who = t]
    /\ UNCHANGED <<probe, limiterVars, redisVars, corrupt, locals,
                   constructions, heap, accounts, now, engineVars, cacheVars,
                   execVars>>

\* reset_loop, one round inside the lock.
ResetBody(t) ==
    /\ pcs[t] = "in_reset"
    /\ heap' = [o \in ObjIds |-> IF o \in Range(accounts)
                                 THEN reset_hourly_counter(heap[o])
                                 ELSE heap[o]]
    /\ pcs' = [pcs EXCEPT ![t] = "done"]
    /\ held' = release(held, t, "accounts")
    /\ last' = [Last("reset_hourly_counter", 0, "") EXCEPT !.who = t]
    /\ UNCHANGED <<probe, limiterVars, redisVars, corrupt, locals,
                   constructions, accounts, current_index, now, engineVars,
                   cacheVars, execVars>>

\* shutdown, the loaders closed and forgotten inside _loader_lock; the wait
\* for the executor comes after the block.
ShutdownBody(t) ==
    /\ pcs[t] = "in_shutdown"
    /\ loaders' = {}
    /\ default_loader' = FALSE
    /\ pcs' = [pcs EXCEPT ![t] = "done"]
    /\ held' = release(held, t, "loader")
    /\ last' = [Last("shutdown", 0, "") EXCEPT !.who = t]
    /\ UNCHANGED <<probe, limiterVars, redisVars, corrupt, locals,
                   constructions, poolVars, logged_in_user, env_sessions,
                   session_files, login_ok, calls, cacheVars, execVars>>

\* InMemoryCache.set inside its lock.
CacheBody(t) ==
    /\ pcs[t] = "in_cache"
    /\ cache' = cache_set(cache, max_size, 1, "v1", 1, time)
    /\ pcs' = [pcs EXCEPT ![t] = "done"]
    /\ held' = release(held, t, "cache")
    /\ last' = [Last("cache_set", 0, "") EXCEPT !.who = t]
    /\ UNCHANGED <<probe, limiterVars, redisVars, corrupt, locals,
                   constructions, poolVars, engineVars, max_size, time,
                   execVars>>

\* What each thread runs.
Programs(t) ==
    IF t = "loop"
    THEN {"start", "preview_start", "cache_start", "shutdown_start"}
    ELSE IF t = "reset" THEN {"reset_start"}
    ELSE {"start"}

InitThreads ==
    /\ \/ \E p \in {<<Entry("a1", TRUE)>>,
                     <<Entry("a1", TRUE), Entry("a2", TRUE)>>} :
              PoolIs(p, {"clean"})
       \/ PoolIs(<<Entry("a1", TRUE)>>, {"busy"})
    /\ loaders = {}
    /\ default_loader = FALSE
    /\ logged_in_user = NoUser
    /\ env_sessions = {}
    /\ session_files = {}
    /\ login_ok \in {{}, Usernames}
    /\ calls = [c \in 1..MaxCalls |-> IdleCall]
    /\ CacheIdle
    /\ ProbeIdle
    /\ LimiterIdle
    /\ RedisIdle
    /\ ExecIdle
    /\ corrupt = {}
    /\ pcs \in [Threads -> {"start", "preview_start", "cache_start",
                            "shutdown_start", "reset_start"}]
    /\ \A t \in Threads : pcs[t] \in Programs(t)
    /\ locals = [t \in Threads |-> [NoLocals EXCEPT !.prog = pcs[t]]]
    /\ held = [t \in Threads |-> {}]
    /\ constructions = [u \in Usernames |-> 0]
    /\ last = Last("init", 0, "")

NextThreads ==
    \/ \E t \in Threads : Acquire(t)
    \/ \E t \in Threads : GetNextBody(t)
    \/ \E t \in Threads : GetDefaultBody(t)
    \/ \E t \in Threads : CheckLoaders(t)
    \/ \E t \in Threads : Construct(t)
    \/ \E t \in Threads : DisableAndRetry(t)
    \/ \E t \in Threads, o \in Outcomes : Work(t, o)
    \/ \E t \in Threads : RecordRead(t)
    \/ \E t \in Threads : RecordWrite(t)
    \/ \E t \in Threads : Mark(t)
    \/ \E t \in Threads : SetError(t)
    \/ \E t \in Threads : PreviewGet(t)
    \/ \E t \in Threads : PreviewBack(t)
    \/ \E t \in Threads : ResetBody(t)
    \/ \E t \in Threads : ShutdownBody(t)
    \/ \E t \in Threads : CacheBody(t)

SpecThreads == InitThreads /\ [][NextThreads]_vars

----------------------------------------------------------------------------
(* The in-process cache *)

InitCache ==
    /\ PoolIs(<<>>, {"clean"})
    /\ EngineIdle
    /\ max_size = CacheSize
    /\ cache = Fillers
    /\ time = 0
    /\ SideIdle
    /\ last = Last("init", 0, "")

NextCache ==
    \/ \E k \in Keys : CacheGet(k)
    \/ \E k \in Keys, v \in Values, ttl \in TTLs : CacheSet(k, v, ttl)
    \/ \E k \in Keys : CacheDelete(k)
    \/ CacheClear
    \/ ClockTick

SpecCache == InitCache /\ [][NextCache]_vars

----------------------------------------------------------------------------
(* Properties of the account pool *)

\* 1-based position of the object o in the account list (0 when absent).
Pos(o) == IF o \in Range(accounts)
          THEN CHOOSE i \in 1..Len(accounts) : accounts[i] = o ELSE 0

\* The deadline of the account is set and still ahead at time t.
CoolingDown(a, t) == a.rate_limited_until # NoTime /\ t < a.rate_limited_until

\* Every account of a non-empty pool is enabled, not cooling down and under
\* the quota (an account whose deadline has passed counts from zero).
AllAvailable ==
    /\ accounts # <<>>
    /\ \A o \in Range(accounts) :
           /\ heap[o].enabled
           /\ ~CoolingDown(heap[o], now)
           /\ (heap[o].rate_limited_until = NoTime
                   => heap[o].requests_this_hour < HourlyLimit)

\* C1: in a pool whose accounts are all available, every get_next_account
\* call returns an account, and a call that directly follows another returns
\* the account that comes next in insertion order (the first one after the
\* last one): N consecutive calls return each account once and call N+1
\* returns the account of call 1 again.
C1_RoundRobin ==
    [][ (AllAvailable /\ last'.op = "get_next_account") =>
            /\ last'.exc = ""
            /\ last'.ret \in Range(accounts)
            /\ (last.op = "get_next_account" /\ last.ret \in Range(accounts))
                   => Pos(last'.ret) = (Pos(last.ret) % Len(accounts)) + 1
      ]_vars

\* C2: an account that get_next_account or get_random_account returns is an
\* account of the pool that was enabled, not cooling down and under the
\* hourly limit when it was selected.
C2_ReturnedIsAvailable ==
    [][ (/\ last'.op \in {"get_next_account", "get_random_account"}
         /\ last'.ret # NoAccount) =>
            /\ last'.ret \in Range(accounts)
            /\ heap[last'.ret].enabled
            /\ ~CoolingDown(heap[last'.ret], now)
            /\ heap'[last'.ret].requests_this_hour < HourlyLimit
            /\ (heap[last'.ret].rate_limited_until = NoTime
                    => heap[last'.ret].requests_this_hour < HourlyLimit)
      ]_vars

\* C2 witness: an account was returned while another account of the pool was
\* cooling down.
C2_Witness ==
    /\ last.op \in {"get_next_account", "get_random_account"}
    /\ last.ret # NoAccount
    /\ \E o \in Range(accounts) : CoolingDown(heap[o], now)
    /\ \E o \in Range(accounts) : heap[o].requests_this_hour >= HourlyLimit

\* C3: the cursor is inside the account list, and 0 when the list is empty.
C3_CursorInRange ==
    IF accounts = <<>>
    THEN current_index = 0
    ELSE current_index \in 0..(Len(accounts) - 1)

\* C5: mark_rate_limited sets the deadline 60 minutes ahead; an evaluation of
\* is_available before the deadline gives False; an evaluation once the
\* deadline has passed gives True for an enabled account, clears the deadline
\* and leaves the hourly counter at 0.
C5_Cooldown ==
    [][ /\ last'.op = "mark_rate_limited" =>
               /\ heap'[last'.ret].rate_limited_until = now + RateLimitMinutes
               /\ CoolingDown(heap'[last'.ret], now')
        /\ last'.op = "available_count" =>
               \A o \in Range(accounts) :
                   /\ CoolingDown(heap[o], now) =>
                          /\ o \notin last'.avail
                          /\ heap'[o] = heap[o]
                   /\ (/\ heap[o].enabled
                       /\ heap[o].rate_limited_until # NoTime
                       /\ ~CoolingDown(heap[o], now)) =>
                          /\ o \in last'.avail
                          /\ heap'[o].rate_limited_until = NoTime
                          /\ heap'[o].requests_this_hour = 0
      ]_vars

\* C5 witness: an evaluation found a deadline passed and reset the account.
C5_Witness ==
    /\ last.op = "available_count"
    /\ last.resets > 0
    /\ last.avail # {}
    /\ now > RateLimitMinutes

----------------------------------------------------------------------------
(* Properties of the rotation engine *)

\* A loader for the account named u exists or can be built.
Constructible(u) ==
    u \in (loaders \cup env_sessions \cup session_files \cup login_ok)

\* The account o would be selectable at the current time.
Selectable(o) == is_available(heap[o], now).ret

\* C4: a rate-limit signal of the unit of work run under account A gives A a
\* deadline 60 minutes ahead and reaches the caller as a 429 error without
\* the unit of work being run again; the call that directly follows is given
\* an available account other than A, when the pool has one whose client can
\* be built.
C4_RateLimitRotates ==
    [][ /\ (/\ last'.op = "run_with_rotation_end"
            /\ last'.val = "TooManyRequestsException"
            /\ last'.ret # NoAccount) =>
               /\ heap'[last'.ret].rate_limited_until = now + RateLimitMinutes
               /\ last'.exc = "RateLimitError"
               /\ last'.status = 429
               /\ last'.runs = 0
               /\ calls'[last'.call].pc = "done"
        /\ (/\ last.op = "run_with_rotation_end"
            /\ last.exc = "RateLimitError"
            /\ last.ret # NoAccount
            /\ last'.op = "run_with_rotation"
            /\ \E o \in Range(accounts) \ {last.ret} :
                   Selectable(o) /\ Constructible(heap[o].username)) =>
               /\ last'.exc = ""
               /\ last'.ret \in Range(accounts) \ {last.ret}
               /\ Selectable(last'.ret)
      ]_vars

\* The pool is [a1, a2] with a2 disabled.
PoolA1A2 ==
    /\ Len(accounts) = 2
    /\ heap[accounts[1]].username = "a1"
    /\ heap[accounts[2]].username = "a2"
    /\ ~heap[accounts[2]].enabled

\* C6: with the pool [a1, a2 disabled], a call with require_auth runs its
\* unit of work on the client of a1 when a1 is selectable and its client can
\* be built; when a1 is disabled too and there is no ambient session, the
\* call fails with the login-required error and runs nothing.
C6_RequireAuthUsesA1 ==
    [][ (PoolA1A2 /\ last'.op = "run_with_rotation" /\ last'.require_auth) =>
            /\ (Selectable(accounts[1]) /\ Constructible("a1")) =>
                   /\ last'.exc = ""
                   /\ last'.ret = accounts[1]
                   /\ last'.loader = "a1"
                   /\ last'.runs = 1
            /\ (~heap[accounts[1]].enabled /\ logged_in_user = NoUser) =>
                   /\ last'.exc = "LoginRequiredError"
                   /\ last'.status = 401
                   /\ last'.runs = 0
      ]_vars

\* No account of the pool can be selected (the pool may be empty).
NoneSelectable == \A o \in Range(accounts) : ~Selectable(o)

\* C7: when no account can be selected, a call with require_auth = false runs
\* its unit of work once on the default client and changes no account; a call
\* with require_auth = true and no ambient session fails with the
\* login-required error and its unit of work is not run.
C7_NoAccountFallback ==
    [][ (NoneSelectable /\ last'.op = "run_with_rotation") =>
            IF ~last'.require_auth
            THEN /\ last'.exc = ""
                 /\ last'.ret = NoAccount
                 /\ last'.loader = "default"
                 /\ default_loader'
                 /\ last'.runs = 1
                 /\ heap' = heap
            ELSE logged_in_user = NoUser =>
                     /\ last'.exc = "LoginRequiredError"
                     /\ last'.status = 401
                     /\ last'.runs = 0
                     /\ calls'[last'.call].pc = "done"
      ]_vars

\* C8: an account whose client cannot be built is disabled and the selection
\* is made again; the failure never fails the request; the failed attempts
\* are distinct accounts of the pool, so there are at most pool-size of them;
\* the selection ends with an account whose client was built, or, when no
\* account is left selectable, with the default client and no account.
C8_ConstructionFailure ==
    [][ (last'.op = "run_with_rotation" /\ last'.failed # <<>>) =>
            /\ Len(last'.failed) <= Len(accounts)
            /\ \A i \in 1..Len(last'.failed) :
                   /\ last'.failed[i] \in Range(accounts)
                   /\ heap[last'.failed[i]].enabled
                   /\ ~heap'[last'.failed[i]].enabled
                   /\ \A j \in 1..Len(last'.failed) :
                          last'.failed[j] = last'.failed[i] => j = i
            /\ last'.exc \in {"", "LoginRequiredError"}
            /\ IF last'.ret # NoAccount
               THEN /\ last'.ret \in Range(accounts) \ Range(last'.failed)
                    /\ last'.loader = heap'[last'.ret].username
                    /\ last'.loader \in loaders'
               ELSE /\ last'.loader = "default"
                    /\ default_loader'
                    /\ \A o \in Range(accounts) :
                           ~is_available(heap'[o], now').ret
                    /\ last'.exc = "LoginRequiredError" =>
                           last'.require_auth /\ logged_in_user = NoUser
      ]_vars

\* C8 witness: every selectable account failed construction, one after the
\* other, and the call went on with the default client.
C8_Witness ==
    /\ last.op = "run_with_rotation"
    /\ Len(last.failed) >= 2
    /\ last.ret = NoAccount
    /\ last.loader = "default"
    /\ last.exc = ""

\* C9: a unit of work that succeeds under an account adds exactly one to the
\* account's hourly counter and stamps its last-request time; one that fails
\* leaves the counter unchanged.
C9_SuccessCounted ==
    [][ (/\ last'.op \in {"run_with_rotation_end", "fetch_highlight_end"}
         /\ last'.ret # NoAccount) =>
            IF last'.val = "ok"
            THEN /\ heap'[last'.ret].requests_this_hour =
                        heap[last'.ret].requests_this_hour + 1
                 /\ heap'[last'.ret].last_request_time = now
            ELSE heap'[last'.ret].requests_this_hour =
                     heap[last'.ret].requests_this_hour
      ]_vars

----------------------------------------------------------------------------
(* Properties of InMemoryCache *)

\* The entry stored under k in the dict c.
CacheEntry(c, k) == c[CachePos(c, k)]

\* C10: set(k, v, ttl) leaves k stored with v and the expiry time + ttl, also
\* when the dict was full; an entry stays as stored until it is set again,
\* deleted, cleared, evicted or found expired; get(k) returns the stored value
\* when the expiry is ahead, and otherwise returns nothing and leaves k
\* absent, so an expired value is never returned.
C10_CacheRoundTrip ==
    [][ /\ last'.op = "cache_set" =>
               /\ last'.key \in CacheKeys(cache')
               /\ CacheEntry(cache', last'.key).value = last'.val
               /\ CacheEntry(cache', last'.key).expires_at = time + last'.ret
               /\ Len(cache') <= max_size
        /\ \A k \in Keys :
               (/\ k \in CacheKeys(cache)
                /\ k \in CacheKeys(cache')
                /\ ~(last'.op = "cache_set" /\ last'.key = k)) =>
                   CacheEntry(cache', k) = CacheEntry(cache, k)
        /\ last'.op = "cache_get" =>
               IF /\ last'.key \in CacheKeys(cache)
                  /\ time < CacheEntry(cache, last'.key).expires_at
               THEN /\ last'.val = CacheEntry(cache, last'.key).value
                    /\ cache' = cache
               ELSE /\ last'.val = Absent
                    /\ last'.key \notin CacheKeys(cache')
      ]_vars

\* C10 witness: a get returned a stored value after a set on the full dict
\* had evicted some of the older entries.
C10_Witness ==
    /\ last.op = "cache_get"
    /\ last.val # Absent
    /\ \E i \in 1..(CacheSize - 1) : FillerKey(i) \notin CacheKeys(cache)
    /\ \E i \in 1..(CacheSize - 1) : FillerKey(i) \in CacheKeys(cache)

----------------------------------------------------------------------------
(* The in-process cache with a small max_size *)

\* InMemoryCache(max_size) constructed with a small capacity, still empty.
SmallSizes == {1, 2, 3}

InitSmallCache ==
    /\ PoolIs(<<>>, {"clean"})
    /\ EngineIdle
    /\ max_size \in SmallSizes
    /\ cache = <<>>
    /\ time = 0
    /\ SideIdle
    /\ last = Last("init", 0, "")

SpecSmallCache == InitSmallCache /\ [][NextCache]_vars

\* C11: the number of entries of the in-process cache never exceeds max_size.
C11_CacheBounded == Len(cache) <= max_size

----------------------------------------------------------------------------
(* Further properties of the account pool *)

\* The accounts of the pool that are selectable now.
SelectableNow == {o \in Range(accounts) : Selectable(o)}

\* C16: when some account is available, get_next_account returns an
\* available account, whatever the cursor (so the only available account when
\* there is exactly one); it returns no account only when none is available.
C16_FindsAvailable ==
    [][ last'.op = "get_next_account" =>
            /\ SelectableNow # {} =>
                   /\ last'.exc = ""
                   /\ last'.ret \in SelectableNow
            /\ SelectableNow = {} =>
                   /\ last'.exc = ""
                   /\ last'.ret = NoAccount
      ]_vars

\* The hourly counter is_available compares: 0 once the deadline has passed.
CounterAfterReset(a) ==
    IF a.rate_limited_until # NoTime THEN 0 ELSE a.requests_this_hour

\* C17: is_available is true exactly for an account that is enabled, has no
\* deadline still ahead and whose counter, after the lazy reset, is below
\* 150: at 150 the account is unavailable, at 149 it is available.
C17_AvailableExactly ==
    [][ last'.op = "available_count" =>
            \A o \in Range(accounts) :
                /\ o \in last'.avail <=>
                       /\ heap[o].enabled
                       /\ ~CoolingDown(heap[o], now)
                       /\ CounterAfterReset(heap[o]) < HourlyLimit
                /\ (/\ heap[o].rate_limited_until = NoTime
                    /\ heap[o].requests_this_hour = HourlyLimit)
                       => o \notin last'.avail
                /\ (/\ heap[o].enabled
                    /\ heap[o].rate_limited_until = NoTime
                    /\ heap[o].requests_this_hour = HourlyLimit - 1)
                       => o \in last'.avail
      ]_vars

\* C17 witness: an evaluation found an account with 149 requests available
\* and an enabled account with 150 requests unavailable.
C17_Witness ==
    /\ last.op = "available_count"
    /\ \E o \in last.avail :
           heap[o].requests_this_hour = HourlyLimit - 1
    /\ \E o \in Range(accounts) \ last.avail :
           /\ heap[o].enabled
           /\ heap[o].requests_this_hour = HourlyLimit

\* The usernames of the pool, in list order.
PoolNames(h, accts) == [i \in 1..Len(accts) |-> h[accts[i]].username]

\* C18: add_account with a username of the pool returns False and changes
\* neither list nor cursor, and so does remove_account with a username not in
\* the pool; a successful add appends one fresh account at the end, a
\* successful remove deletes the named account and nothing else, the other
\* accounts staying in their order.
C18_AddRemove ==
    [][ /\ last'.op = "add_account" =>
               IF last'.who \in Range(PoolNames(heap, accounts))
               THEN /\ last'.ret = 0
                    /\ accounts' = accounts
                    /\ heap' = heap
                    /\ current_index' = current_index
               ELSE /\ last'.ret = 1
                    /\ Len(accounts') = Len(accounts) + 1
                    /\ SubSeq(accounts', 1, Len(accounts)) = accounts
                    /\ \A o \in Range(accounts) : heap'[o] = heap[o]
                    /\ accounts'[Len(accounts')] \notin Range(accounts)
                    /\ heap'[accounts'[Len(accounts')]] =
                           AccountInfo(last'.who, TRUE)
                    /\ current_index' = current_index
        /\ last'.op = "remove_account" =>
               IF last'.who \notin Range(PoolNames(heap, accounts))
               THEN /\ last'.ret = 0
                    /\ accounts' = accounts
                    /\ heap' = heap
                    /\ current_index' = current_index
               ELSE /\ last'.ret = 1
                    /\ Len(accounts') = Len(accounts) - 1
                    /\ last'.who \notin Range(PoolNames(heap', accounts'))
                    /\ Range(PoolNames(heap', accounts')) =
                           Range(PoolNames(heap, accounts)) \ {last'.who}
                    /\ \A o \in Range(accounts') :
                           /\ o \in Range(accounts)
                           /\ heap'[o] = heap[o]
                    /\ \A i, j \in 1..Len(accounts') :
                           i < j => Pos(accounts'[i]) < Pos(accounts'[j])
      ]_vars

\* C18 witness: an account in the middle of the list was removed.
C18_Witness ==
    /\ last.op = "remove_account"
    /\ last.ret = 1
    /\ last.who = "a2"
    /\ PoolNames(heap, accounts) = <<"a1", "a3">>

----------------------------------------------------------------------------
(* RateLimiter: the sliding window of the inbound limiter *)

\* The clock counts half seconds: a window of w seconds is 2 * w ticks.
TicksPerSecond == 2

Max(a, b) == IF a >= b THEN a ELSE b

\* min(state.requests)
MinOf(reqs) == CHOOSE m \in Range(reqs) : \A x \in Range(reqs) : m <= x

\* A clean-up that keeps the timestamp lying exactly window_seconds back.
cleanup_keeps_boundary(reqs, t, window) ==
    SelectSeq(reqs, LAMBDA ts : ts >= t - TicksPerSecond * window)

\* _cleanup_old_requests: the timestamps after the cutoff now - window_seconds.
cleanup_old_requests(reqs, t, window) ==
    SelectSeq(reqs, LAMBDA ts : ts > t - TicksPerSecond * window)

\* is_allowed that decides on the list as it finds it, without the clean-up.
is_allowed_without_cleanup(reqs, t, limit, window) ==
    IF Len(reqs) >= limit
    THEN [allowed |-> FALSE, remaining |-> 0,
          reset_seconds |->
              Max(1, ((IF reqs = <<>> THEN t ELSE MinOf(reqs))
                      + TicksPerSecond * window - t) \div TicksPerSecond),
          counted |-> reqs, requests |-> reqs]
    ELSE [allowed |-> TRUE,
          remaining |-> Max(0, limit - Len(reqs)) - 1,
          reset_seconds |-> window,
          counted |-> reqs, requests |-> Append(reqs, t)]

\* is_allowed that records the request before it decides, so that a rejected
\* request is in the list too.
is_allowed_records_rejected(reqs, t, limit, window) ==
    LET kept == cleanup_old_requests(reqs, t, window)
    IN  IF Len(kept) >= limit
        THEN [allowed |-> FALSE, remaining |-> 0,
              reset_seconds |->
                  Max(1, ((IF kept = <<>> THEN t ELSE MinOf(kept))
                          + TicksPerSecond * window - t) \div TicksPerSecond),
              counted |-> kept, requests |-> Append(kept, t)]
        ELSE [allowed |-> TRUE,
              remaining |-> Max(0, limit - Len(kept)) - 1,
              reset_seconds |-> window,
              counted |-> kept, requests |-> Append(kept, t)]

\* RateLimiter.is_allowed for a client whose state.requests is reqs, at time
\* t: the tuple it returns, the timestamps it counted and the list it leaves.
\* int() of the seconds left truncates the half seconds.
is_allowed(reqs, t, limit, window) ==
    LET kept == cleanup_old_requests(reqs, t, window)
        remaining == Max(0, limit - Len(kept))
    IN  IF Len(kept) >= limit
        THEN LET oldest == IF kept = <<>> THEN t ELSE MinOf(kept)
             IN  [allowed |-> FALSE, remaining |-> 0,
                  reset_seconds |->
                      Max(1, (oldest + TicksPerSecond * window - t)
                                 \div TicksPerSecond),
                  counted |-> kept, requests |-> kept]
        ELSE [allowed |-> TRUE, remaining |-> remaining - 1,
              reset_seconds |-> window,
              counted |-> kept, requests |-> Append(kept, t)]

\* The number of requests admitted so far, over all clients.
RECURSIVE SumLen(_, _)
SumLen(f, ks) ==
    IF ks = {} THEN 0
    ELSE LET k == CHOOSE x \in ks : TRUE
         IN  Len(f[k]) + SumLen(f, ks \ {k})

TotalAdmitted == SumLen(admitted, ClientKeys)

\* A request of client k reaches RateLimiter.is_allowed.
IsAllowed(k) ==
    /\ TotalAdmitted < MaxAdmitted
    /\ LET r == is_allowed(clients[k], clock, requests_limit, window_seconds)
       IN  /\ clients' = [clients EXCEPT ![k] = r.requests]
           /\ admitted' = IF r.allowed
                          THEN [admitted EXCEPT ![k] = Append(@, clock)]
                          ELSE admitted
           /\ verdict' = [key |-> k, allowed |-> r.allowed,
                          remaining |-> r.remaining,
                          reset_seconds |-> r.reset_seconds,
                          counted |-> r.counted]
    /\ last' = [Last("is_allowed", 0, "") EXCEPT !.who = k]
    /\ UNCHANGED <<requests_limit, window_seconds, clock, probe, redisVars,
                   poolVars, engineVars, cacheVars,
                   threadVars, execVars>>

\* Half a second passes.
LimiterTick ==
    /\ clock < MaxTicks
    /\ clock' = clock + 1
    /\ last' = Last("limiter_tick", 0, "")
    /\ UNCHANGED <<requests_limit, window_seconds, clients, admitted, verdict,
                   probe, redisVars, poolVars, engineVars, cacheVars,
                   threadVars, execVars>>

\* The paths a request can have: the exempt ones, one the router serves, and
\* an exempt one spelled with a trailing slash.
RequestPaths == {"/health", "/docs", "/redoc", "/openapi.json", "/extract",
                 "/health/"}

\* An allowlist that has lost its documentation paths.
exempt_paths_health_only == {"/health"}

\* RateLimitMiddleware.exempt_paths
exempt_paths == {"/health", "/docs", "/redoc", "/openapi.json"}

\* RateLimitMiddleware.dispatch for a request of client k to `path`: an exempt
\* path goes straight to call_next; any other is put to is_allowed, which
\* rejects it with 429 or admits it.
Dispatch(path, k) ==
    /\ TotalAdmitted < MaxAdmitted
    /\ IF path \in exempt_paths
       THEN /\ UNCHANGED <<clients, admitted, verdict>>
            /\ last' = [Last("dispatch", 0, "") EXCEPT
                           !.who = k, !.val = path, !.status = 200]
       ELSE LET r == is_allowed(clients[k], clock, requests_limit,
                                window_seconds)
            IN  /\ clients' = [clients EXCEPT ![k] = r.requests]
                /\ admitted' = IF r.allowed
                               THEN [admitted EXCEPT ![k] = Append(@, clock)]
                               ELSE admitted
                /\ verdict' = [key |-> k, allowed |-> r.allowed,
                               remaining |-> r.remaining,
                               reset_seconds |-> r.reset_seconds,
                               counted |-> r.counted]
                /\ last' = [Last("dispatch", 0,
                                 IF r.allowed THEN "" ELSE "HTTPException")
                               EXCEPT !.who = k, !.val = path,
                                      !.status = IF r.allowed THEN 200
                                                 ELSE 429]
    /\ UNCHANGED <<requests_limit, window_seconds, clock, probe, redisVars,
                   poolVars, engineVars, cacheVars,
                   threadVars, execVars>>

InitLimiter ==
    /\ PoolIs(<<>>, {"clean"})
    /\ EngineIdle
    /\ CacheIdle
    /\ ProbeIdle
    /\ RedisIdle
    /\ ThreadIdle
    /\ ExecIdle
    /\ requests_limit \in 1..MaxLimit
    /\ window_seconds \in 1..MaxWindow
    /\ clients = [k \in ClientKeys |-> <<>>]
    /\ admitted = [k \in ClientKeys |-> <<>>]
    /\ clock = 0
    /\ verdict = NoVerdict
    /\ last = Last("init", 0, "")

NextLimiter ==
    \/ \E k \in ClientKeys : IsAllowed(k)
    \/ LimiterTick

SpecLimiter == InitLimiter /\ [][NextLimiter]_vars

\* The limiter behind its middleware.
NextDispatch ==
    \/ \E path \in RequestPaths, k \in ClientKeys : Dispatch(path, k)
    \/ LimiterTick

\* RateLimitMiddleware(app) with a limiter whose window is one second.
InitDispatch ==
    /\ PoolIs(<<>>, {"clean"})
    /\ EngineIdle
    /\ CacheIdle
    /\ ProbeIdle
    /\ RedisIdle
    /\ ThreadIdle
    /\ ExecIdle
    /\ requests_limit \in 1..MaxLimit
    /\ window_seconds = 1
    /\ clients = [k \in ClientKeys |-> <<>>]
    /\ admitted = [k \in ClientKeys |-> <<>>]
    /\ clock = 0
    /\ verdict = NoVerdict
    /\ last = Last("init", 0, "")

SpecDispatch == InitDispatch /\ [][NextDispatch]_vars

----------------------------------------------------------------------------
(* Properties of the limiter *)

\* The number of requests of client k admitted in the window of
\* window_seconds that ends at tick t (its start excluded), in history h.
AdmittedInWindow(h, k, t) ==
    Cardinality({i \in 1..Len(h[k]) :
        /\ h[k][i] > t - TicksPerSecond * window_seconds
        /\ h[k][i] <= t})

\* C14: a client never has more than requests_limit admitted requests in a
\* trailing window of window_seconds; a request is admitted when fewer than
\* requests_limit admitted requests lie in the window ending now (so the
\* first requests_limit requests are, and so is a request made once the
\* window has elapsed since the oldest one), and is rejected otherwise, with
\* a retry-after between 1 and window_seconds.
C14_SlidingWindow ==
    [][ last'.op = "is_allowed" =>
            /\ Len(admitted[verdict'.key]) < requests_limit
                   => verdict'.allowed
            /\ verdict'.allowed <=>
                   AdmittedInWindow(admitted, verdict'.key, clock)
                       < requests_limit
            /\ ~verdict'.allowed =>
                   /\ verdict'.reset_seconds >= 1
                   /\ verdict'.reset_seconds <= window_seconds
            /\ \A k \in ClientKeys, t \in 0..clock :
                   AdmittedInWindow(admitted', k, t) <= requests_limit
      ]_vars

\* C14 witness: a client that has used up its limit is admitted again at the
\* instant the window has elapsed since its oldest admitted request.
C14_Witness ==
    /\ last.op = "is_allowed"
    /\ verdict.allowed
    /\ Len(admitted[verdict.key]) > requests_limit
    /\ verdict.counted = <<>>
    /\ clock = admitted[verdict.key][1] + TicksPerSecond * window_seconds

\* C15 as stated: the timestamps counted for the decision are those not older
\* than now - window_seconds, the one lying exactly window_seconds back
\* included.
C15_PrunesOlderOnly ==
    [][ last'.op = "is_allowed" =>
            verdict'.counted =
                SelectSeq(clients[verdict'.key],
                    LAMBDA ts : ts >= clock - TicksPerSecond * window_seconds)
      ]_vars

\* C15, amended: is_allowed prunes before it decides, and counts exactly the
\* timestamps later than now - window_seconds: the decision compares their
\* number with requests_limit, and the list left behind is made of them, plus
\* now when the request is admitted.
C15_PrunesUpToCutoff ==
    [][ last'.op = "is_allowed" =>
            LET k == verdict'.key
                kept == SelectSeq(clients[k],
                    LAMBDA ts : ts > clock - TicksPerSecond * window_seconds)
            IN  /\ verdict'.counted = kept
                /\ verdict'.allowed <=> Len(kept) < requests_limit
                /\ clients'[k] = IF verdict'.allowed
                                 THEN Append(kept, clock) ELSE kept
      ]_vars

\* C15 witness: a timestamp lying exactly window_seconds back was dropped and
\* the request admitted in its place.
C15_Witness ==
    /\ last.op = "is_allowed"
    /\ verdict.allowed
    /\ verdict.counted = <<>>
    /\ Len(admitted[verdict.key]) = requests_limit + 1
    /\ admitted[verdict.key][requests_limit] =
           clock - TicksPerSecond * window_seconds

----------------------------------------------------------------------------
(* The engine with every kind of upstream failure *)

InitErrors ==
    /\ PoolIs(<<Entry("a1", TRUE)>>, {"clean"})
    /\ loaders = {}
    /\ default_loader = FALSE
    /\ logged_in_user = NoUser
    /\ env_sessions = {}
    /\ session_files = {}
    /\ login_ok \in {{}, Usernames}
    /\ calls = [c \in 1..MaxCalls |-> IdleCall]
    /\ CacheIdle
    /\ SideIdle
    /\ last = Last("init", 0, "")

NextErrors ==
    \/ \E b \in BOOLEAN : RunWithRotation(b)
    \/ \E c \in DOMAIN calls, o \in UpstreamFailures \cup {"ok"} :
           RunWithRotationEnd(c, o)

SpecErrors == InitErrors /\ [][NextErrors]_vars

\* The error kind and status the taxonomy gives each upstream failure.
Taxonomy(exc) ==
    CASE exc = "BadCredentialsException" ->
             <<"InvalidCredentialsError", 401>>
      [] exc = "TwoFactorAuthRequiredException" ->
             <<"TwoFactorRequiredError", 401>>
      [] exc = "LoginRequiredException" -> <<"LoginRequiredError", 401>>
      [] exc = "ProfileNotExistsException" -> <<"ProfileNotFoundError", 404>>
      [] exc = "QueryReturnedNotFoundException" ->
             <<"PostNotFoundError", 404>>
      [] exc = "PrivateProfileNotFollowedException" ->
             <<"PrivateProfileError", 403>>
      [] exc = "TooManyRequestsException" -> <<"RateLimitError", 429>>
      [] exc = "ConnectionException" -> <<"ServiceUnavailableError", 503>>
      [] OTHER -> <<"APIException", 500>>

\* C20: a call whose unit of work fails raises the error kind and status of
\* the taxonomy for that failure; a rate-limited or not-found failure is
\* never reported as a connection error (503).
C20_ErrorTaxonomy ==
    [][ (last'.op = "run_with_rotation_end" /\ last'.val # "ok") =>
            /\ <<last'.exc, last'.status>> = Taxonomy(last'.val)
            /\ last'.val \in {"TooManyRequestsException",
                              "QueryReturnedNotFoundException",
                              "ProfileNotExistsException"}
                   => last'.status # 503
      ]_vars

\* C20 witness: a not-found failure, a subclass of the library's connection
\* exception, reached the caller as 404.
C20_Witness ==
    /\ last.op = "run_with_rotation_end"
    /\ last.val = "QueryReturnedNotFoundException"
    /\ isinstance(last.val, "ConnectionException")
    /\ last.status = 404

----------------------------------------------------------------------------
(* RedisCache: the cache backend shared between processes *)

\* How the deployment can be: the server answering, the server unreachable,
\* or the redis library missing.
RedisStates == {"up", "down", "not_installed"}

\* What the steps of a RedisCache method can raise.
RedisErrors == {"ImportError", "ConnectionError"}

\* `except Exception`: the exception that leaves the try statement ("" when
\* the handler took it).
ExceptException(exc) == IF exc \in RedisErrors THEN "" ELSE exc

\* _get_client: the client is created on first use; the import fails when the
\* library is missing. from_url does not connect.
redis_get_client(client, state) ==
    IF client THEN [exc |-> "", client |-> TRUE]
    ELSE IF state = "not_installed"
    THEN [exc |-> "ImportError", client |-> FALSE]
    ELSE [exc |-> "", client |-> TRUE]

\* A command sent to the server.
redis_command(state) == IF state = "up" THEN "" ELSE "ConnectionError"

\* json.dumps(value, default=str) and json.loads of what it produced.
json_dumps(v) == <<"json", v>>
json_loads(j) == j[2]

\* RedisCache.get whose handler takes connection errors only.
redis_get_narrow_handler(client, state, store, k, t) ==
    LET c == redis_get_client(client, state)
        e == IF c.exc # "" THEN c.exc ELSE redis_command(state)
    IN  IF e # ""
        THEN [ret |-> Absent,
              exc |-> IF e = "ConnectionError" THEN "" ELSE e,
              client |-> c.client]
        ELSE IF k \in CacheKeys(store) /\ t < store[CachePos(store, k)].expires_at
        THEN [ret |-> json_loads(store[CachePos(store, k)].value), exc |-> "",
              client |-> c.client]
        ELSE [ret |-> Absent, exc |-> "", client |-> c.client]

\* RedisCache.get at time t: what it returns or raises, and the client.
redis_get(client, state, store, k, t) ==
    LET c == redis_get_client(client, state)
        e == IF c.exc # "" THEN c.exc ELSE redis_command(state)
    IN  IF e # ""
        THEN [ret |-> Absent, exc |-> ExceptException(e), client |-> c.client]
        ELSE IF k \in CacheKeys(store) /\ t < store[CachePos(store, k)].expires_at
        THEN [ret |-> json_loads(store[CachePos(store, k)].value), exc |-> "",
              client |-> c.client]
        ELSE [ret |-> Absent, exc |-> "", client |-> c.client]

\* RedisCache.set, delete and clear: `write` is the store the command leaves
\* on a server that answers.
redis_write(client, state, store, write) ==
    LET c == redis_get_client(client, state)
        e == IF c.exc # "" THEN c.exc ELSE redis_command(state)
    IN  [exc |-> ExceptException(e), client |-> c.client,
         store |-> IF e = "" THEN write ELSE store]

\* SETEX key ttl value on the server.
redis_setex(store, k, j, ttl, t) ==
    LET e == [key |-> k, value |-> j, expires_at |-> t + ttl]
    IN  IF k \in CacheKeys(store)
        THEN [store EXCEPT ![CachePos(store, k)] = e]
        ELSE Append(store, e)

RedisGet(k) ==
    /\ LET g == redis_get(redis_client, redis_state, redis_store, k, time)
       IN  /\ redis_client' = g.client
           /\ last' = [Last("redis_get", 0, g.exc) EXCEPT !.key = k,
                                                          !.val = g.ret]
    /\ UNCHANGED <<redis_state, redis_store, probe, limiterVars, poolVars,
                   engineVars, cacheVars,
                   threadVars, execVars>>

RedisSet(k, v, ttl) ==
    /\ LET w == redis_write(redis_client, redis_state, redis_store,
                   redis_setex(redis_store, k, json_dumps(v), ttl, time))
       IN  /\ redis_client' = w.client
           /\ redis_store' = w.store
           /\ last' = [Last("redis_set", ttl, w.exc) EXCEPT !.key = k,
                                                            !.val = v]
    /\ UNCHANGED <<redis_state, probe, limiterVars, poolVars, engineVars,
                   cacheVars,
                   threadVars, execVars>>

RedisDelete(k) ==
    /\ LET w == redis_write(redis_client, redis_state, redis_store,
                            cache_delete(redis_store, k))
       IN  /\ redis_client' = w.client
           /\ redis_store' = w.store
           /\ last' = [Last("redis_delete", 0, w.exc) EXCEPT !.key = k]
    /\ UNCHANGED <<redis_state, probe, limiterVars, poolVars, engineVars,
                   cacheVars,
                   threadVars, execVars>>

RedisClear ==
    /\ LET w == redis_write(redis_client, redis_state, redis_store, <<>>)
       IN  /\ redis_client' = w.client
           /\ redis_store' = w.store
           /\ last' = Last("redis_clear", 0, w.exc)
    /\ UNCHANGED <<redis_state, probe, limiterVars, poolVars, engineVars,
                   cacheVars,
                   threadVars, execVars>>

\* The server becomes unreachable, or reachable again.
RedisOutage ==
    /\ redis_state \in {"up", "down"}
    /\ redis_state' = IF redis_state = "up" THEN "down" ELSE "up"
    /\ last' = Last("redis_outage", 0, "")
    /\ UNCHANGED <<redis_client, redis_store, probe, limiterVars, poolVars,
                   engineVars, cacheVars,
                   threadVars, execVars>>

\* One second passes on the clock of the Redis server.
RedisTick ==
    /\ time < MaxClock
    /\ time' = time + 1
    /\ last' = Last("clock_tick", 0, "")
    /\ UNCHANGED <<cache, max_size, sideVars, poolVars, engineVars, execVars>>

InitRedis ==
    /\ PoolIs(<<>>, {"clean"})
    /\ EngineIdle
    /\ CacheIdle
    /\ ProbeIdle
    /\ LimiterIdle
    /\ ThreadIdle
    /\ ExecIdle
    /\ redis_client = FALSE
    /\ redis_state \in RedisStates
    /\ redis_store = <<>>
    /\ last = Last("init", 0, "")

NextRedis ==
    \/ \E k \in Keys : RedisGet(k)
    \/ \E k \in Keys, v \in Values, ttl \in TTLs : RedisSet(k, v, ttl)
    \/ \E k \in Keys : RedisDelete(k)
    \/ RedisClear
    \/ RedisOutage
    \/ RedisTick

SpecRedis == InitRedis /\ [][NextRedis]_vars

\* The calls of the RedisCache methods.
RedisOps == {"redis_get", "redis_set", "redis_delete", "redis_clear"}

\* C19: no method of RedisCache raises; while the server is unreachable or
\* the library missing, get returns nothing and set, delete and clear leave
\* the stored keys as they are.
C19_RedisNeverRaises ==
    [][ last'.op \in RedisOps =>
            /\ last'.exc = ""
            /\ redis_state # "up" =>
                   /\ last'.op = "redis_get" => last'.val = Absent
                   /\ redis_store' = redis_store
      ]_vars

\* C19 witness: a get returned nothing while the unreachable server held a
\* live entry for the key.
C19_Witness ==
    /\ last.op = "redis_get"
    /\ last.val = Absent
    /\ last.exc = ""
    /\ redis_state = "down"
    /\ last.key \in CacheKeys(redis_store)
    /\ time < CacheEntry(redis_store, last.key).expires_at

----------------------------------------------------------------------------
(* extract_media: from the URL to the cache key *)

\* A URL is written as its host part, its path segments, an optional trailing
\* slash and an optional query string.
Hosts   == {"https://instagram.com", "https://www.instagram.com"}
Queries == {"", "?igsh=1"}
Paths ==
    { <<"p", "abc">>, <<"reel", "abc">>, <<"abc">>, <<"17">>, <<"p">>,
      <<"stories", "abc">>,
      <<"stories", "abc", "17">>, <<"stories", "abc", "18">>,
      <<"stories", "highlights", "17">>, <<"stories", "highlights", "18">> }
\* The plain spelling of each URL, and the spellings one step away from it.
Urls ==
    {u \in [host : Hosts, path : Paths, slash : BOOLEAN, query : Queries] :
        Cardinality({x \in {"host", "slash", "query"} :
            \/ x = "host" /\ u.host # "https://instagram.com"
            \/ x = "slash" /\ u.slash
            \/ x = "query" /\ u.query # ""}) <= 1}

\* The URL string, as the sequence of its parts.
RECURSIVE JoinPath(_)
JoinPath(path) ==
    IF path = <<>> THEN <<>>
    ELSE <<"/", Head(path)>> \o JoinPath(Tail(path))

Raw(u) ==
    <<u.host>> \o JoinPath(u.path)
        \o (IF u.slash THEN <<"/">> ELSE <<>>)
        \o (IF u.query = "" THEN <<>> ELSE <<u.query>>)

\* url.split('?')[0]
RECURSIVE BeforeQuery(_)
BeforeQuery(raw) ==
    IF raw = <<>> \/ Head(raw) \in (Queries \ {""}) THEN <<>>
    ELSE <<Head(raw)>> \o BeforeQuery(Tail(raw))

\* .rstrip('/')
RECURSIVE RStripSlash(_)
RStripSlash(raw) ==
    IF raw # <<>> /\ raw[Len(raw)] = "/"
    THEN RStripSlash(SubSeq(raw, 1, Len(raw) - 1))
    ELSE raw

\* The path segments that follow "instagram.com/" in the cleaned URL.
SegmentsOf(clean) ==
    [i \in 1..((Len(clean) - 1) \div 2) |-> clean[2 * i + 1]]

\* The segments made of digits, and the paths Instagram reserves.
DigitSegments == {"17", "18"}
Reserved == {"p", "reel", "tv", "stories", "explore", "direct", "accounts",
             "about", "legal"}

NoParse == [type |-> "unknown", shortcode |-> "", username |-> "",
            story_id |-> "", highlight_id |-> ""]

\* parse_instagram_url: the patterns in the order the code tries them.
parse_instagram_url(raw) ==
    LET seg == SegmentsOf(RStripSlash(BeforeQuery(raw)))
        n   == Len(seg)
    IN  IF n >= 2 /\ seg[1] \in {"p", "reel", "tv"}
        THEN [NoParse EXCEPT !.type = "post", !.shortcode = seg[2]]
        ELSE IF /\ n >= 3
                /\ seg[1] = "stories"
                /\ seg[2] = "highlights"
                /\ seg[3] \in DigitSegments
        THEN [NoParse EXCEPT !.type = "highlight", !.highlight_id = seg[3]]
        ELSE IF n >= 3 /\ seg[1] = "stories" /\ seg[3] \in DigitSegments
        THEN [NoParse EXCEPT !.type = "story", !.username = seg[2],
                             !.story_id = seg[3]]
        ELSE IF n = 2 /\ seg[1] = "stories"
        THEN [NoParse EXCEPT !.type = "stories_all", !.username = seg[2]]
        ELSE IF n = 1 /\ seg[1] \notin Reserved
        THEN [NoParse EXCEPT !.type = "profile", !.username = seg[1]]
        ELSE NoParse

\* parsed.get('shortcode') or parsed.get('username') or
\* parsed.get('story_id') or url
extract_identifier(parsed, raw) ==
    IF parsed.shortcode # "" THEN <<parsed.shortcode>>
    ELSE IF parsed.username # "" THEN <<parsed.username>>
    ELSE IF parsed.story_id # "" THEN <<parsed.story_id>>
    ELSE raw

\* A key built from the identifier alone.
extract_cache_key_without_type(url_type, identifier) ==
    <<"extract:", ":">> \o identifier

\* f"extract:{url_type}:{identifier}"
extract_cache_key(url_type, identifier) ==
    <<"extract:", url_type, ":">> \o identifier

\* extract_media up to the cache lookup: the URL is parsed and the cache key
\* built.
ExtractMedia(u) ==
    /\ LET raw == Raw(u)
           parsed == parse_instagram_url(raw)
           identifier == extract_identifier(parsed, raw)
       IN  probe' = [prev |-> probe.cur,
                     cur  |-> [NoRequest EXCEPT
                                  !.kind = "extract", !.url = u,
                                  !.type = parsed.type,
                                  !.identifier = identifier,
                                  !.key = extract_cache_key(parsed.type,
                                                            identifier)]]
    /\ last' = Last("extract_media", 0, "")
    /\ UNCHANGED <<limiterVars, redisVars, poolVars, engineVars, cacheVars,
                   threadVars, execVars>>

\* Keyword arguments as the caller wrote them: name and value, in order.
KwNames == {"limit", "username"}
KwValues == {"abc", "12"}
Kwargs ==
    {<<>>} \cup {<<<<n, v>>>> : n \in KwNames, v \in KwValues}
           \cup {kw \in {<<<<n, v>>, <<m, w>>>> :
                             n \in KwNames, m \in KwNames,
                             v \in KwValues, w \in KwValues} :
                    kw[1][1] # kw[2][1]}
Args == {<<"abc">>}

\* The order json.dumps(sort_keys=True) gives the keys.
KeyRank(n) == IF n = "limit" THEN 1 ELSE 2

\* The items of the dict kw in the order of their keys.
SortKeys(kw) ==
    [i \in 1..Len(kw) |->
        kw[CHOOSE j \in 1..Len(kw) :
               Cardinality({l \in 1..Len(kw) :
                   KeyRank(kw[l][1]) < KeyRank(kw[j][1])}) = i - 1]]

\* cache_key(*args, **kwargs): md5 of the JSON text with sorted keys. Two
\* texts are taken to have different digests.
cache_key(args, kwargs) == <<"md5", args, SortKeys(kwargs)>>

CacheKeyCall(args, kwargs) ==
    /\ probe' = [prev |-> probe.cur,
                 cur  |-> [NoRequest EXCEPT
                              !.kind = "cache_key", !.args = args,
                              !.kwargs = kwargs,
                              !.key = cache_key(args, kwargs)]]
    /\ last' = Last("cache_key", 0, "")
    /\ UNCHANGED <<limiterVars, redisVars, poolVars, engineVars, cacheVars,
                   threadVars, execVars>>

InitExtract ==
    /\ PoolIs(<<>>, {"clean"})
    /\ EngineIdle
    /\ CacheIdle
    /\ SideIdle
    /\ last = Last("init", 0, "")

NextExtract ==
    \/ \E u \in Urls : ExtractMedia(u)
    \/ \E a \in Args, kw \in Kwargs : CacheKeyCall(a, kw)

SpecExtract == InitExtract /\ [][NextExtract]_vars

----------------------------------------------------------------------------
(* Properties of the cache keys *)

\* The request types extract_media serves.
RequestTypes == {"post", "profile", "story", "stories_all", "highlight"}

\* The last two requests were extractions of served types.
TwoExtractions ==
    /\ probe.prev.kind = "extract"
    /\ probe.cur.kind = "extract"
    /\ probe.prev.type \in RequestTypes
    /\ probe.cur.type \in RequestTypes

\* C12: two extraction requests of different types never get the same cache
\* key, in particular not when they carry the same identifier.
C12_TypesDoNotCollide ==
    (TwoExtractions /\ probe.prev.type # probe.cur.type)
        => probe.prev.key # probe.cur.key

\* C12 witness: a post, then a profile, both with the identifier "abc".
C12_Witness ==
    /\ TwoExtractions
    /\ probe.prev.type = "post"
    /\ probe.cur.type = "profile"
    /\ probe.prev.identifier = <<"abc">>
    /\ probe.cur.identifier = <<"abc">>

\* The keyword arguments as a dict: the value given to each name.
AsDict(kw) == {kw[i] : i \in 1..Len(kw)}

\* C13: two requests for the same thing get the same cache key: extractions
\* whose URLs differ only in host prefix, trailing slash or query string, and
\* cache_key calls whose keyword arguments differ only in their order.
C13_SameRequestSameKey ==
    /\ (TwoExtractions /\ probe.prev.url.path = probe.cur.url.path)
           => probe.prev.key = probe.cur.key
    /\ (/\ probe.prev.kind = "cache_key"
        /\ probe.cur.kind = "cache_key"
        /\ probe.prev.args = probe.cur.args
        /\ AsDict(probe.prev.kwargs) = AsDict(probe.cur.kwargs))
           => probe.prev.key = probe.cur.key

----------------------------------------------------------------------------
(* What an error message shows *)

\* C21: the message of an error the engine raises never contains the raw
\* text of the upstream exception.
C21_NoRawTextInMessage ==
    last.op = "run_with_rotation_end" => RawText \notin Range(last.message)

----------------------------------------------------------------------------
(* The preview of the rotation *)

\* C24: a preview consumes no rotation: the get_next_account call that
\* follows a preview, with nothing in between, returns the account the
\* preview reported.
C24_PreviewKeepsRotation ==
    [][ (/\ last.op = "preview_next_account"
         /\ last.exc = ""
         /\ last'.op = "get_next_account")
            => (last'.ret = last.ret /\ last'.exc = "")
      ]_vars

\* C24 witness: the preview skipped an unavailable account to report the
\* second of several accounts, and has put the cursor on it.
C24_Witness ==
    /\ last.op = "preview_next_account"
    /\ last.ret # NoAccount
    /\ Len(accounts) >= 2
    /\ accounts[current_index + 1] = last.ret
    /\ current_index = 1
    /\ ~heap[accounts[1]].enabled

----------------------------------------------------------------------------
(* The exempt paths of the limiter *)

\* The paths the specification exempts.
OperationalPaths == {"/health", "/docs", "/redoc", "/openapi.json"}

\* C25: a request to an operational path is passed through and leaves every
\* client's window as it was; the windows hold only timestamps of admitted
\* requests to other paths.
C25_ExemptPathsPass ==
    [][ (last'.op = "dispatch" /\ last'.val \in OperationalPaths) =>
            /\ last'.status = 200
            /\ last'.exc = ""
            /\ clients' = clients
            /\ admitted' = admitted
      ]_vars

\* C25 witness: a client whose window is full has just been passed through
\* on an operational path.
C25_Witness ==
    /\ last.op = "dispatch"
    /\ last.val = "/docs"
    /\ last.status = 200
    /\ Len(clients[last.who]) = requests_limit

----------------------------------------------------------------------------
(* The worker pool *)

\* C22: at every instant at most max_concurrent_downloads units of work,
\* each a blocking call of the scraping client, are being executed.
C22_BoundedWorkers == Cardinality(executing) <= max_workers

\* C23: when the unit of work of a cancelled call ends, its outcome is
\* recorded on the account the call used: record_request on success,
\* mark_rate_limited on the rate-limit signal, last_error otherwise.
C23_CancelledOutcomeRecorded ==
    [][ (last'.op = "abandoned_work_end" /\ last'.ret # NoAccount) =>
            heap'[last'.ret] =
                run_with_rotation_account(heap[last'.ret], last'.val, now)
      ]_vars

----------------------------------------------------------------------------
(* Locks *)

\* The health fields of an account that are read and then written.
HealthOf(a) == <<a.requests_this_hour, a.rate_limited_until,
                 a.last_request_time>>

\* C26: a step that changes the rotation cursor or a health field of an
\* account is made by a thread that holds the pool lock.
C26_UpdatesUnderPoolLock ==
    [][ (\/ current_index' # current_index
         \/ \E o \in ObjIds : HealthOf(heap'[o]) # HealthOf(heap[o]))
            => "accounts" \in held[last'.who]
      ]_vars

\* shutdown has not emptied _loaders.
ServiceRuns ==
    \/ locals["loop"].prog # "shutdown_start"
    \/ pcs["loop"] \in {"shutdown_start", "in_shutdown"}

\* The threads that hold a client of username u.
HoldersOf(u) ==
    {t \in Threads : locals[t].loader # <<>> /\ locals[t].loader[1] = u}

\* C27: while the service runs, at most one client is built and cached for
\* a username, at most one thread is building one, and every thread that got
\* a client for the username got that one.
C27_OneClientPerUsername ==
    ServiceRuns =>
        \A u \in Usernames :
            /\ constructions[u] <= 1
            /\ Cardinality({t \in Threads :
                   /\ pcs[t] = "constructing"
                   /\ heap[locals[t].account].username = u}) <= 1
            /\ \A t \in HoldersOf(u) : locals[t].loader = <<u, 1>>

\* C27 witness: a thread has just been given the cached client of a1 that
\* another thread built and still works with.
C27_Witness ==
    /\ ServiceRuns
    /\ last.op = "get_loader_for_account"
    /\ last.val = "cached"
    /\ constructions["a1"] = 1
    /\ \E t \in HoldersOf("a1") \ {last.who} : pcs[t] = "work"
    /\ last.who \in HoldersOf("a1")

\* C28: no thread holds two of the locks, and a thread about to take a lock
\* holds none; so some thread can always take its next step until all are
\* done.
C28_NoNestedLocks ==
    /\ \A t \in Threads :
           /\ Cardinality(held[t]) <= 1
           /\ Wanted(pcs[t]) # "none" => held[t] = {}
    /\ (\A t \in Threads : pcs[t] = "done") \/ ENABLED NextThreads

\* C28 witness: the three locks are held at once, by three threads.
C28_Witness ==
    /\ held["loop"] = {"cache"}
    /\ held["reset"] = {"accounts"}
    /\ held["w1"] = {"loader"}
    /\ pcs["w1"] = "constructing"
    /\ Wanted(pcs["w2"]) = "loader"

----------------------------------------------------------------------------
(* Session sources: clients built outside the rotation *)

\* POST /accounts/{username}/test: the account is looked up, its client is
\* fetched or built by _get_loader_for_account, and test_login() tells whether
\* the session is still good (it returns None instead of raising).  Any
\* exception becomes last_error and a 400.
test_account_login(u) ==
    /\ LET o == get_account_by_username(heap, accounts, u)
       IN  IF o = NoAccount
           THEN /\ UNCHANGED <<heap, loaders, session_files>>
                /\ last' = [Last("test_account_login", NoAccount,
                                 "HTTPException")
                               EXCEPT !.who = u, !.status = 404]
           ELSE LET r == get_loader_for_account(heap, o, loaders,
                             env_sessions, session_files, login_ok, corrupt)
                IN  /\ heap' = r.heap
                    /\ loaders' = r.loaders
                    /\ session_files' = r.files
                    /\ IF r.ok
                       THEN \E good \in BOOLEAN :
                                last' = [Last("test_account_login", o, "")
                                            EXCEPT !.who = u, !.status = 200,
                                                   !.val = IF good
                                                           THEN "success"
                                                           ELSE "expired",
                                                   !.loader = r.source,
                                                   !.tried = r.tried]
                       ELSE last' = [Last("test_account_login", o,
                                          "HTTPException")
                                        EXCEPT !.who = u, !.status = 400,
                                               !.tried = r.tried]
    /\ UNCHANGED <<sideVars, accounts, current_index, now, default_loader,
                   logged_in_user, env_sessions, login_ok, calls, cacheVars,
                   execVars>>

\* InstaloaderService.shutdown(): every cached client and the default one
\* are closed and forgotten.
shutdown ==
    /\ loaders' = {}
    /\ default_loader' = FALSE
    /\ last' = Last("shutdown", 0, "")
    /\ UNCHANGED <<sideVars, poolVars, logged_in_user, env_sessions,
                   session_files, login_ok, calls, cacheVars, execVars>>

\* What is stored for one username in a session source.
SourceStates == {"absent", "usable", "broken"}

InitSessions ==
    /\ \E p \in {<<Entry("a1", TRUE)>>,
                 <<Entry("a1", TRUE), Entry("a2", TRUE)>>} :
           /\ PoolIs(p, {"clean"})
           /\ \E e \in [{q.username : q \in Range(p)} -> SourceStates],
                 f \in [{q.username : q \in Range(p)} -> SourceStates] :
                  /\ env_sessions = {u \in DOMAIN e : e[u] = "usable"}
                  /\ session_files = {u \in DOMAIN f : f[u] = "usable"}
                  /\ corrupt = {<<"env", u>> : u \in {v \in DOMAIN e :
                                                        e[v] = "broken"}}
                               \cup {<<"file", u>> : u \in {v \in DOMAIN f :
                                                        f[v] = "broken"}}
           /\ login_ok \in SUBSET {q.username : q \in Range(p)}
    /\ loaders = {}
    /\ default_loader = FALSE
    /\ logged_in_user = NoUser
    /\ calls = [c \in 1..MaxCalls |-> IdleCall]
    /\ CacheIdle
    /\ ProbeIdle /\ LimiterIdle /\ RedisIdle /\ ExecIdle
    /\ pcs = [t \in Threads |-> "start"]
    /\ locals = [t \in Threads |-> NoLocals]
    /\ held = [t \in Threads |-> {}]
    /\ constructions = [u \in Usernames |-> 0]
    /\ last = Last("init", 0, "")

NextSessions ==
    \/ \E u \in Usernames : test_account_login(u)
    \/ shutdown

SpecSessions == InitSessions /\ [][NextSessions]_vars

SourceRank(src) == CASE src = "env" -> 1 [] src = "file" -> 2 [] OTHER -> 3

\* The source holds a session for u that loads (for the login: it succeeds).
SourceWorks(src, u) ==
    \/ src = "env" /\ u \in env_sessions
    \/ src = "file" /\ u \in session_files
    \/ src = "login" /\ u \in login_ok

\* The source holds nothing for u; a login can always be attempted.
SourceAbsent(src, u) ==
    /\ src # "login"
    /\ ~SourceWorks(src, u)
    /\ <<src, u>> \notin corrupt

\* C29: when _get_loader_for_account has to build the client of a username,
\* it attempts the session sources in the order blob, session file, login;
\* every attempt before the last one failed and every source it passed over
\* held nothing; the call succeeds and caches the client exactly when its
\* last attempt succeeded, and when the login has failed as well, last_error
\* is set, the call fails and the username has no cached client.
C29_FirstWorkingSourceWins ==
    [][ (/\ last'.op = "test_account_login"
         /\ last'.ret # NoAccount
         /\ last'.who \notin loaders) =>
            LET u  == last'.who
                tr == last'.tried
                n  == Len(tr)
            IN  /\ n >= 1
                /\ \A i \in 1..n : /\ tr[i].ok = SourceWorks(tr[i].source, u)
                                   /\ i < n => ~tr[i].ok
                /\ \A i \in 1..n, j \in 1..n :
                       i < j => SourceRank(tr[i].source) < SourceRank(tr[j].source)
                /\ \A src \in {"env", "file", "login"} :
                       (/\ SourceRank(src) < SourceRank(tr[n].source)
                        /\ \A i \in 1..n : tr[i].source # src)
                           => SourceAbsent(src, u)
                /\ tr[n].ok =>
                       /\ last'.exc = ""
                       /\ last'.loader = tr[n].source
                       /\ loaders' = loaders \cup {u}
                       /\ heap'[last'.ret].last_error = heap[last'.ret].last_error
                /\ ~tr[n].ok =>
                       /\ tr[n].source = "login"
                       /\ last'.exc # ""
                       /\ heap'[last'.ret].last_error # ""
                       /\ loaders' = loaders ]_vars

\* Blob and session file are both there and both broken, the login fails:
\* three attempts, an error on the account, nothing cached.
C29_Witness ==
    /\ last.op = "test_account_login"
    /\ last.exc # ""
    /\ Len(last.tried) = 3
    /\ <<"env", last.who>> \in corrupt
    /\ <<"file", last.who>> \in corrupt
    /\ last.who \notin loaders
    /\ heap[last.ret].last_error # ""

----------------------------------------------------------------------------
(* The life of an account: selected, cooled down, disabled, enabled *)

\* accounts.json as a reload finds it: a1 enabled, a2 disabled.
ReloadFile ==
    [exists |-> TRUE, readable |-> TRUE,
     entries |-> <<Entry("a1", TRUE), Entry("a2", FALSE)>>]

InitLifecycle ==
    /\ PoolIs(<<Entry("a1", TRUE), Entry("a2", TRUE)>>, {"clean", "cooling"})
    /\ current_index = 0
    /\ loaders = {}
    /\ default_loader = FALSE
    /\ logged_in_user = NoUser
    /\ env_sessions = {}
    /\ session_files = {}
    /\ login_ok \in {{"a2"}, {"a1", "a2"}}
    /\ calls = [c \in 1..MaxCalls |-> IdleCall]
    /\ CacheIdle
    /\ SideIdle
    /\ last = Last("init", 0, "")

\* One call of the engine, with the operator and the clock at work around it.
NextLifecycle ==
    \/ \E b \in BOOLEAN : calls[1].pc = "idle" /\ RunWithRotation(b)
    \/ \E c \in DOMAIN calls, o \in Outcomes : RunWithRotationEnd(c, o)
    \/ \E u \in {"a1", "a2"} : enable_account(u)
    \/ \E u \in {"a1", "a2"} : disable_account(u)
    \/ remove_account("a1")
    \/ add_account("a1")
    \/ load_from_file(ReloadFile)
    \/ GetNextAccount
    \/ AvailableCount
    \/ HourlyReset
    \/ Tick(60)

SpecLifecycle == InitLifecycle /\ [][NextLifecycle]_vars

\* The AccountInfo object o is the same object before and after the step: the
\* list or a call in flight refers to it.  load_from_file drops every object
\* of the list and builds new ones from the file, enabled as the file says;
\* only an object that a call in flight still uses outlives it.
Outlives(o) ==
    IF last'.op = "load_from_file"
    THEN o \in Referenced(<<>>, calls)
    ELSE o \in Referenced(accounts, calls)

Selections == {"get_next_account", "get_random_account",
               "preview_next_account", "run_with_rotation",
               "fetch_highlight"}

\* C30: the enabled flag of an account object goes from false to true only in
\* enable_account, whatever else runs (calls of the engine and their
\* bookkeeping, construction failures, lazy and hourly resets, the clock,
\* removals and additions of other accounts), and no selection ever returns
\* an account that is disabled; an account whose client could not be built
\* during a call is disabled when the call has made its selection.
C30_DisabledUntilEnabled ==
    [][ /\ \A o \in ObjIds :
               (Outlives(o) /\ ~heap[o].enabled /\ heap'[o].enabled)
                   => (last'.op = "enable_account" /\ last'.ret = o)
        /\ (last'.op \in Selections /\ last'.ret # NoAccount) =>
               /\ heap[last'.ret].enabled
               /\ heap'[last'.ret].enabled
               /\ \A i \in 1..Len(last'.failed) :
                      ~heap'[last'.failed[i]].enabled ]_vars

\* An account was disabled when its client could not be built; its cooldown
\* is over and the selection passes it over for the other account.
C30_Witness ==
    /\ last.op = "get_next_account"
    /\ last.ret # NoAccount
    /\ now >= RateLimitMinutes
    /\ \E o \in Range(accounts) :
           /\ o # last.ret
           /\ ~heap[o].enabled
           /\ heap[o].last_error # ""
           /\ current_index = 0
           /\ accounts[Len(accounts)] = last.ret

----------------------------------------------------------------------------
(* Eviction of the in-process cache *)

\* Positions of the entries of the dict that a set has removed for good, and
\* of those it has left in place (the key that is set gets a new entry).
EvictedBy(k) == {i \in 1..Len(cache) : cache[i].key \notin CacheKeys(cache')}
SurvivorsOf(k) ==
    {i \in 1..Len(cache) : cache[i].key \in CacheKeys(cache') \ {k}}

\* C31: a set on a cache that is at capacity evicts before it inserts: the
\* dict is no longer afterwards than before (so at least one entry made room),
\* and no evicted entry expires later than an earlier entry that is kept.
C31_EvictsEarliestExpiry ==
    [][ (last'.op = "cache_set" /\ Len(cache) >= max_size) =>
            /\ Len(cache') <= Len(cache)
            /\ \A e \in EvictedBy(last'.key), s \in SurvivorsOf(last'.key) :
                   cache[e].expires_at <= cache[s].expires_at ]_vars

----------------------------------------------------------------------------
(* The hourly reset *)

\* C32: one round of the hourly reset sets requests_this_hour of every
\* account of the list to 0 and changes no other field of any account, nor
\* the list, nor the cursor; an account that is cooling down is still
\* unavailable afterwards.
C32_HourlyResetFrame ==
    [][ last'.op = "reset_hourly_counter" =>
            /\ \A o \in ObjIds :
                   heap'[o] = IF o \in Range(accounts)
                              THEN [heap[o] EXCEPT !.requests_this_hour = 0]
                              ELSE heap[o]
            /\ accounts' = accounts
            /\ current_index' = current_index
            /\ now' = now
            /\ \A o \in Range(accounts) :
                   (heap[o].rate_limited_until # NoTime
                    /\ now < heap[o].rate_limited_until)
                       => ~is_available(heap'[o], now').ret ]_vars

\* The reset has run over a pool with an account that is cooling down and a
\* disabled one; the counters are at 0 and the deadline is still ahead.
C32_Witness ==
    /\ last.op = "reset_hourly_counter"
    /\ Len(accounts) = 2
    /\ \A o \in Range(accounts) : heap[o].requests_this_hour = 0
    /\ \E o \in Range(accounts) :
           /\ heap[o].enabled
           /\ heap[o].rate_limited_until # NoTime
           /\ now < heap[o].rate_limited_until
    /\ \E o \in Range(accounts) : ~heap[o].enabled

----------------------------------------------------------------------------
(* The health fields of an account from its creation on *)

InitFields ==
    /\ PoolIs(<<>>, {"clean"})
    /\ loaders = {}
    /\ default_loader = FALSE
    /\ logged_in_user = NoUser
    /\ env_sessions = {}
    /\ session_files = {}
    /\ login_ok = Usernames
    /\ calls = [c \in 1..MaxCalls |-> IdleCall]
    /\ CacheIdle
    /\ SideIdle
    /\ last = Last("init", 0, "")

NextFields ==
    \/ load_from_file(ReloadFile)
    \/ load_from_env(<<Entry("a3", TRUE)>>)
    \/ add_account("a3")
    \/ calls[1].pc = "idle" /\ RunWithRotation(FALSE)
    \/ \E c \in DOMAIN calls, o \in Outcomes : RunWithRotationEnd(c, o)
    \/ \E o \in ObjIds : MarkRateLimited(o)
    \/ GetNextAccount
    \/ AvailableCount
    \/ Tick(60)

SpecFields == InitFields /\ [][NextFields]_vars

\* The account objects the step has created.
CreatedByStep ==
    IF last'.op = "load_from_file" THEN Range(accounts')
    ELSE IF last'.op \in {"load_from_env", "add_account"}
    THEN Range(accounts') \ Range(accounts)
    ELSE {}

\* The account objects whose passed deadline the step has observed in
\* is_available, and nothing else has touched.
LazilyReset ==
    IF last'.op \in {"get_next_account", "available_count"}
    THEN {o \in Range(accounts) : /\ heap[o].rate_limited_until # NoTime
                                  /\ heap'[o].rate_limited_until = NoTime}
    ELSE {}

\* C33 as stated: the four health fields are at their initial values right
\* after an account is loaded or added, and again after is_available has
\* seen that its rate-limit deadline has passed.
C33_HealthCleanAfterLoadAndCooldown ==
    [][ \A o \in CreatedByStep \cup LazilyReset :
            /\ heap'[o].requests_this_hour = 0
            /\ heap'[o].last_request_time = NoTime
            /\ heap'[o].rate_limited_until = NoTime
            /\ heap'[o].last_error = "" ]_vars

\* C33 as the code has it: the four health fields are at their initial values
\* right after an account is loaded or added; when is_available sees that
\* the deadline has passed it clears the deadline and the hourly counter and
\* leaves the last-request time and the last error as they were.
C33_HealthCleanAfterLoad ==
    [][ /\ \A o \in CreatedByStep :
               /\ heap'[o].requests_this_hour = 0
               /\ heap'[o].last_request_time = NoTime
               /\ heap'[o].rate_limited_until = NoTime
               /\ heap'[o].last_error = ""
        /\ \A o \in LazilyReset :
               /\ heap[o].rate_limited_until <= now
               /\ heap'[o].requests_this_hour = 0
               /\ heap'[o].rate_limited_until = NoTime
               /\ heap'[o].last_request_time = heap[o].last_request_time
               /\ heap'[o].last_error = heap[o].last_error ]_vars

\* A selection has just cleared the passed deadline of an account that had
\* served a request and had an error recorded: both are still on it.
C33_Witness ==
    /\ last.op = "get_next_account"
    /\ last.resets > 0
    /\ \E o \in Range(accounts) :
           /\ heap[o].rate_limited_until = NoTime
           /\ heap[o].requests_this_hour = 0
           /\ heap[o].last_error # ""
           /\ now >= RateLimitMinutes

----------------------------------------------------------------------------
(* extract_media: the whole request, from the URL to the response *)

\* The URLs the requests are made with, in their plain spelling.
RequestUrls ==
    {u \in Urls : /\ u.host = "https://instagram.com" /\ ~u.slash
                  /\ u.query = ""
                  /\ u.path \in {<<"p", "abc">>, <<"abc">>,
                                 <<"stories", "abc", "17">>,
                                 <<"stories", "abc", "18">>,
                                 <<"stories", "highlights", "17">>}}

\* What a request asks for: the type and the parameters parsed from the URL.
Asked(parsed) ==
    <<parsed.type, parsed.shortcode, parsed.username, parsed.story_id,
      parsed.highlight_id>>

\* A time to live of nothing: the entry is out of date as soon as it is set.
extract_ttl_none(url_type) == 0

\* ttl_map.get(url_type, CacheTTL.POSTS)
extract_ttl(url_type) ==
    IF url_type \in {"story", "stories_all"} THEN CacheTTLStories
    ELSE CacheTTLPosts

\* The element of a set of one.
Only(S) == CHOOSE x \in S : TRUE

\* One _run_with_rotation call made on the engine state st with a unit of
\* work that ends with `outcome`: the selection, the check of require_auth
\* and the bookkeeping on the account.
engine_call(st, require_auth, outcome) ==
    Only({ LET b == run_with_rotation_start(r, require_auth, logged_in_user)
               after == [heap |-> r.heap, idx |-> r.idx,
                         loaders |-> r.loaders, files |-> r.files,
                         dflt |-> r.dflt, engine |-> st.engine + 1]
           IN  IF b.exc # ""
               THEN [ok |-> FALSE, st |-> after]
               ELSE [ok |-> outcome = "ok",
                     st |-> IF r.account = NoAccount THEN after
                            ELSE [after EXCEPT !.heap[r.account] =
                                     run_with_rotation_account(@, outcome,
                                                               now)]]
           : r \in {get_rotated_loader(st.heap, accounts, st.idx, now,
                                       st.loaders, env_sessions, st.files,
                                       login_ok, st.dflt, <<>>)} })

\* _fetch_highlight on the engine state st: a rotated loader, the queries
\* with their exceptions swallowed, nothing recorded on the account.
fetch_highlight(st, outcome) ==
    Only({ [ok |-> r.exc = "" /\ outcome = "ok",
            st |-> [heap |-> r.heap, idx |-> r.idx, loaders |-> r.loaders,
                    files |-> r.files, dflt |-> r.dflt,
                    engine |-> st.engine + 1]]
           : r \in {get_rotated_loader(st.heap, accounts, st.idx, now,
                                       st.loaders, env_sessions, st.files,
                                       login_ok, st.dflt, <<>>)} })

\* extract_post, extract_profile, extract_story, extract_all_stories and
\* extract_highlight: the status of the ExtractResponse and the engine state
\* afterwards.  o1 and o2 are the outcomes of the units of work, `found`
\* tells whether the answer holds any media.
extract_by_type(parsed, st, o1, o2, found) ==
    IF parsed.type = "post"
    THEN Only({ [status |-> IF c.ok THEN "success" ELSE "error", st |-> c.st]
                : c \in {engine_call(st, TRUE, o1)} })
    ELSE IF parsed.type = "profile"
    THEN Only({ IF ~c1.ok THEN [status |-> "error", st |-> c1.st]
                ELSE Only({ [status |-> IF c2.ok THEN "success" ELSE "error",
                             st |-> c2.st]
                            : c2 \in {engine_call(c1.st, FALSE, o2)} })
                : c1 \in {engine_call(st, FALSE, o1)} })
    ELSE IF parsed.type \in {"story", "stories_all"}
    THEN Only({ [status |-> IF c.ok /\ found THEN "success" ELSE "error",
                 st |-> c.st]
                : c \in {engine_call(st, TRUE, o1)} })
    ELSE IF parsed.type = "highlight"
    THEN Only({ [status |-> IF f.ok /\ found THEN "success" ELSE "error",
                 st |-> f.st]
                : f \in {fetch_highlight(st, o1)} })
    ELSE [status |-> "error", st |-> st]

\* GET /extract?url=...: the URL is parsed, the cache is asked, and on a miss
\* the extraction of the URL's type runs and a successful result is cached.
\* o2 is the outcome of the second unit of work of a profile, `found` matters
\* for stories and highlights only.
ExtractRequest(u, o1, o2, found) ==
    /\ \E parsed \in {parse_instagram_url(Raw(u))} :
         /\ parsed.type # "profile" => o2 = "ok"
         /\ parsed.type \notin {"story", "stories_all", "highlight"} => found
         /\ \E key \in {extract_cache_key(parsed.type,
                                          extract_identifier(parsed, Raw(u)))} :
              /\ probe' = [probe EXCEPT !.cur =
                               [NoRequest EXCEPT
                                   !.kind = "extract", !.url = u,
                                   !.type = parsed.type,
                                   !.identifier =
                                       extract_identifier(parsed, Raw(u)),
                                   !.key = key]]
              /\ \E g \in {cache_get(cache, key, time)} :
                   IF g.hit
                   THEN /\ cache' = g.cache
                        /\ UNCHANGED <<heap, current_index, loaders,
                                       session_files, default_loader>>
                        /\ last' = [Last("extract_request", 0, "") EXCEPT
                                       !.val = g.ret.status, !.hit = TRUE,
                                       !.asked = Asked(parsed),
                                       !.served = g.ret.about]
                   ELSE \E x \in {extract_by_type(parsed,
                                       [heap |-> heap, idx |-> current_index,
                                        loaders |-> loaders,
                                        files |-> session_files,
                                        dflt |-> default_loader,
                                        engine |-> 0],
                                       o1, o2, found)} :
                        /\ heap' = x.st.heap
                        /\ current_index' = x.st.idx
                        /\ loaders' = x.st.loaders
                        /\ session_files' = x.st.files
                        /\ default_loader' = x.st.dflt
                        /\ cache' = IF x.status = "success"
                                    THEN cache_set(g.cache, max_size, key,
                                             [status |-> x.status,
                                              about |-> Asked(parsed)],
                                             extract_ttl(parsed.type), time)
                                    ELSE g.cache
                        /\ last' = [Last("extract_request", 0, "") EXCEPT
                                       !.val = x.status,
                                       !.asked = Asked(parsed),
                                       !.served = Asked(parsed),
                                       !.engine = x.st.engine]
    /\ UNCHANGED <<limiterVars, redisVars, threadVars, execVars, accounts, now,
                   logged_in_user, env_sessions, login_ok, calls, max_size,
                   time>>

\* Seconds pass on the clock the cache reads.
ClockJump(d) ==
    /\ time + d <= MaxSeconds
    /\ time' = time + d
    /\ last' = Last("clock_jump", d, "")
    /\ UNCHANGED <<sideVars, cache, max_size, poolVars, engineVars, execVars>>

InitRequests ==
    /\ PoolIs(<<Entry("a1", TRUE)>>, {"clean"})
    /\ loaders = {}
    /\ default_loader = FALSE
    /\ logged_in_user = NoUser
    /\ env_sessions = {}
    /\ session_files = {}
    /\ login_ok = Usernames
    /\ calls = [c \in 1..MaxCalls |-> IdleCall]
    /\ CacheIdle
    /\ SideIdle
    /\ last = Last("init", 0, "")

\* The engine has served fewer than MaxFetches units of work.
FetchesLeft ==
    \A o \in Range(accounts) : heap[o].requests_this_hour < MaxFetches

NextRequests ==
    \/ \E u \in RequestUrls, o1 \in Outcomes, o2 \in Outcomes,
          found \in BOOLEAN : FetchesLeft /\ ExtractRequest(u, o1, o2, found)
    \/ ClockJump(CacheTTLStories)

SpecRequests == InitRequests /\ [][NextRequests]_vars

\* The entry of the dict for key k is there and has not expired.
LiveEntry(c, k, t) ==
    k \in CacheKeys(c) /\ t < c[CachePos(c, k)].expires_at

\* The time to live the specification gives each type of request.
TtlOfType(url_type) ==
    IF url_type \in {"story", "stories_all"} THEN 300 ELSE 3600

\* C34: a request whose key has a live entry in the cache is answered from
\* it and leaves the engine alone (no selection, no cursor move, no counter
\* or client change); a successful extraction is cached for the time to live
\* of its type, so the same request made again at once is a hit; a response
\* with status error is never written to the cache.
C34_RepeatsAnsweredFromCache ==
    [][ last'.op = "extract_request" =>
            LET key == probe'.cur.key
            IN  /\ LiveEntry(cache, key, time) =>
                       /\ last'.hit
                       /\ last'.val = "success"
                       /\ last'.engine = 0
                       /\ heap' = heap
                       /\ current_index' = current_index
                       /\ loaders' = loaders
                       /\ default_loader' = default_loader
                       /\ cache' = cache
                /\ ~LiveEntry(cache, key, time) =>
                       /\ ~last'.hit
                       /\ last'.val = "success" =>
                              /\ key \in CacheKeys(cache')
                              /\ cache'[CachePos(cache', key)].expires_at
                                     = time + TtlOfType(probe'.cur.type)
                       /\ last'.val = "error" =>
                              CacheKeys(cache') \subseteq CacheKeys(cache) \ {key}
                /\ \A i \in 1..Len(cache') : cache'[i].value.status = "success"
                /\ (/\ last.op = "extract_request"
                    /\ last.val = "success"
                    /\ probe'.cur.url = probe.cur.url) => last'.hit ]_vars

\* A post was extracted under an account, the clock has moved on within the
\* hour, and the same request has just been answered from the cache.
C34_Witness ==
    /\ last.op = "extract_request"
    /\ last.hit
    /\ last.asked[1] = "post"
    /\ last.served = last.asked
    /\ time > 0
    /\ \E o \in Range(accounts) : heap[o].requests_this_hour = 1

\* C35: two requests of the same type with different identifying parameters
\* never share a cache key: a request answered from the cache is served the
\* response that was extracted for its own parameters.
C35_ServedWhatWasAsked ==
    (last.op = "extract_request" /\ last.hit) => last.served = last.asked

----------------------------------------------------------------------------
(* The hourly quota under concurrent calls *)

QuotaPools ==
    { <<Entry("a1", TRUE)>>,
      <<Entry("a1", TRUE), Entry("a2", TRUE)>> }

InitQuota ==
    /\ \E p \in QuotaPools : PoolIs(p, {"clean", "busy"})
    /\ loaders = {}
    /\ default_loader = FALSE
    /\ logged_in_user = NoUser
    /\ env_sessions = {}
    /\ session_files = {}
    /\ login_ok = Usernames
    /\ calls = [c \in 1..MaxCalls |-> IdleCall]
    /\ CacheIdle
    /\ SideIdle
    /\ last = Last("init", 0, "")

NextQuota ==
    \/ \E b \in BOOLEAN : RunWithRotation(b)
    \/ \E c \in DOMAIN calls, o \in Outcomes : RunWithRotationEnd(c, o)
    \/ HourlyReset

SpecQuota == InitQuota /\ [][NextQuota]_vars

\* C36: every account's requests-this-hour counter is at most 150 in every
\* reachable state, whatever the interleaving of the calls of
\* _run_with_rotation that select an account before their unit of work ends.
C36_CounterWithinQuota ==
    \A o \in Range(accounts) : heap[o].requests_this_hour <= HourlyLimit

----------------------------------------------------------------------------
(* The account list under load_from_file, load_from_env and add_account *)

\* The pool as lifespan() finds it, then reloads, the environment and the
\* account routes in any order.
NextPool ==
    \/ \E f \in FileContents : load_from_file(f)
    \/ \E e \in EnvContents : load_from_env(e)
    \/ \E u \in Usernames : add_account(u)
    \/ \E u \in Usernames : remove_account(u)

SpecPool == InitStartup /\ [][NextPool]_vars

\* C37: after any sequence of load_from_file, load_from_env and add_account
\* no two accounts of the pool have the same username.
C37_UniqueUsernames ==
    \A i \in DOMAIN accounts, j \in DOMAIN accounts :
        heap[accounts[i]].username = heap[accounts[j]].username => i = j

\* C38: a load_from_file call that fails (no file, unreadable JSON, an entry
\* without username or password) returns 0 and leaves the account pool as
\* it was before the call.
C38_FailedLoadKeepsPool ==
    [][ (last'.op = "load_from_file" /\ last'.val \in {"missing", "failed"}) =>
            /\ last'.ret = 0
            /\ accounts' = accounts
            /\ heap' = heap
            /\ current_index' = current_index ]_vars

----------------------------------------------------------------------------
(* The health fields under concurrent updates *)

\* C39: record_request, mark_rate_limited, the hourly reset and the lazy
\* reset on one account take effect one after the other: when record_request
\* completes, the counter is one more than it was just before, so no reset
\* and no increment that came in between is lost.
C39_IncrementNotLost ==
    [][ last'.op = "record_request" =>
            heap'[last'.ret].requests_this_hour
                = heap[last'.ret].requests_this_hour + 1 ]_vars

----------------------------------------------------------------------------
(* Rejected requests and the sliding window *)

\* C40: a rejected request adds no timestamp to the client's window (it
\* leaves the timestamps still inside the window, in their order) and changes
\* no other client's window; whatever was rejected before, a client with a
\* full window is rejected while the window has not elapsed since its oldest
\* timestamp and admitted as soon as it has.
C40_RejectedLeavesNoTrace ==
    [][ last'.op = "is_allowed" =>
            LET k == verdict'.key
                w == TicksPerSecond * window_seconds
            IN  /\ ~verdict'.allowed =>
                       /\ clients'[k] =
                              SelectSeq(clients[k], LAMBDA ts : ts > clock - w)
                       /\ Len(clients'[k]) = requests_limit
                       /\ admitted' = admitted
                       /\ clock < MinOf(clients'[k]) + w
                /\ \A j \in ClientKeys \ {k} : clients'[j] = clients[j]
                /\ (/\ clients[k] # <<>>
                    /\ clock >= MinOf(clients[k]) + w) => verdict'.allowed
      ]_vars

\* A client that had used up its limit, was admitted again after the window
\* and used it up again has just been rejected, while another client has
\* timestamps in its own window.
C40_Witness ==
    /\ last.op = "is_allowed"
    /\ ~verdict.allowed
    /\ Len(admitted[verdict.key]) > requests_limit
    /\ Len(clients[verdict.key]) = requests_limit
    /\ \E j \in ClientKeys \ {verdict.key} : clients[j] # <<>>

====
